---- MODULE Spec2Model ----
(***************************************************************************)
(* Classification cascade of the financial agent: the LangGraph pipeline   *)
(* of ClasificacionAgent (load_data -> apply_rules -> check_history ->     *)
(* llm_classify -> prepare_review -> [pause | save_results]), the runner   *)
(* BaseAgent.run, and the endpoints /clasificacion/batch,                  *)
(* /clasificacion/{session_id}/validar and /clasificacion/reglas that      *)
(* drive it over the in-memory session store and the database.             *)
(*                                                                         *)
(* A Python dict is a TLA+ function whose DOMAIN is the set of keys that   *)
(* are present; a str is a sequence of one-character strings; a confidence *)
(* is an integer number of hundredths (0.75 is 75).                        *)
(***************************************************************************)
EXTENDS Integers, Sequences, FiniteSets, TLC

(* ----------------------------- bounds ---------------------------------- *)
\* number of /batch requests (each draws a fresh uuid4 session id)
MaxSessions == 1
\* number of rule create/delete requests
MaxReglaOps == 1

(* ------------------------- python primitives --------------------------- *)
\* dict.get(k, default)
Get(d, k, def) == IF k \in DOMAIN d THEN d[k] ELSE def

\* {**d, **e}
Upd(d, e) == [k \in (DOMAIN d) \cup (DOMAIN e) |-> IF k \in DOMAIN e THEN e[k] ELSE d[k]]

\* del d[k]
Del(d, k) == [j \in (DOMAIN d) \ {k} |-> d[j]]

\* one character of str.lower()
LowerChar(c) ==
    CASE c = "R" -> "r"
      [] c = "I" -> "i"
      [] c = "N" -> "n"
      [] c = "C" -> "c"
      [] c = "S" -> "s"
      [] c = "V" -> "v"
      [] OTHER -> c

\* str.lower()
Lower(s) == [i \in 1..Len(s) |-> LowerChar(s[i])]

\* s[:n]
Take(s, n) == IF Len(s) <= n THEN s ELSE SubSeq(s, 1, n)

\* s.startswith(p)
StartsWith(s, p) == Len(p) <= Len(s) /\ SubSeq(s, 1, Len(p)) = p

\* p in s
Contains(s, p) == \E i \in 0..(Len(s) - Len(p)) : SubSeq(s, i + 1, i + Len(p)) = p

\* the decimal digits of a natural number
RECURSIVE Digits(_)
Digits(n) == IF n < 10 THEN <<ToString(n)>> ELSE Digits(n \div 10) \o <<ToString(n % 10)>>

\* str(float(x)) for a whole amount x
StrFloat(x) == (IF x < 0 THEN <<"-">> ELSE <<>>) \o Digits(IF x < 0 THEN -x ELSE x) \o <<".", "0">>

\* round(100 * num / den) as Python's round(x, 2) computes it for x = num/den/100
RoundHalfEven(num, den) ==
    LET q == num \div den
        r == num % den
    IN  IF 2 * r < den THEN q
        ELSE IF 2 * r > den THEN q + 1
        ELSE IF q % 2 = 0 THEN q ELSE q + 1

\* the elements of a list
Range(s) == {s[i] : i \in 1..Len(s)}

\* [f(x) for x in s if p(x)] is built with SelectSeq and a mapping
MapSeq(s, F(_)) == [i \in 1..Len(s) |-> F(s[i])]

(* ------------------------------ the data ------------------------------- *)
\* tenants of the callers
Tenants == {"ta", "tb"}

\* tenants whose users start classification runs
TenantsBatch == {"ta"}

\* transaction ids a request may name; "t9" names no stored row
TxIds == {"t1", "t2", "t9"}

\* table transaccion, in the order the SELECT returns its rows
TablaTransaccion ==
    << [id |-> "t1", concepto |-> <<"R", "I">>, importe |-> -45],
       [id |-> "t2", concepto |-> <<"N">>, importe |-> 2500] >>

\* rows of regla_clasificacion that requests may create or delete
ReglasPool ==
    { [id |-> "r1", tenant_id |-> "ta", activa |-> TRUE, prioridad |-> 2,
       condicion |-> [operador |-> "contains", valor |-> <<"I">>], categoria_pgc |-> "628"],
      [id |-> "r2", tenant_id |-> "ta", activa |-> TRUE, prioridad |-> 1,
       condicion |-> [campo |-> "concepto", operador |-> "startswith", valor |-> <<"r">>],
       categoria_pgc |-> "629"],
      [id |-> "r3", tenant_id |-> "ta", activa |-> TRUE, prioridad |-> 2,
       condicion |-> [campo |-> "importe", operador |-> "equals", valor |-> <<"-", "4", "5", ".", "0">>],
       categoria_pgc |-> "600"] }

\* rows of regla_clasificacion the tenant filter and the activa filter must exclude
ReglasFijas ==
    { [id |-> "r4", tenant_id |-> "tb", activa |-> TRUE, prioridad |-> 9,
       condicion |-> [valor |-> <<>>], categoria_pgc |-> "700"],
      [id |-> "r5", tenant_id |-> "ta", activa |-> FALSE, prioridad |-> 9,
       condicion |-> [operador |-> "regex", valor |-> <<>>], categoria_pgc |-> "705"] }

\* contents of the table clasificacion joined with transaccion before the
\* first request: (concepto of the transaction, category, validated by a human)
Historiales ==
    { <<>>,
      << [concepto |-> <<"n", "x">>, categoria_pgc |-> "640", validado |-> TRUE],
         [concepto |-> <<"N">>, categoria_pgc |-> "640", validado |-> TRUE],
         [concepto |-> <<"N">>, categoria_pgc |-> "642", validado |-> TRUE],
         [concepto |-> <<"N">>, categoria_pgc |-> "700", validado |-> FALSE],
         [concepto |-> <<"r", "i", "x">>, categoria_pgc |-> "628", validado |-> TRUE],
         [concepto |-> <<"R", "I">>, categoria_pgc |-> "629", validado |-> TRUE] >> }

\* rows of the table clasificacion before the first request: none, or one
\* that an earlier run (session id 0) stored for t2
ClasificacionesPrevias ==
    { {},
      { [fila |-> [transaccion_id |-> "t2", categoria_pgc |-> "629", confianza |-> 50,
                   metodo |-> "llm", explicacion |-> "fallback"],
         sid |-> 0] } }

\* review thresholds a /batch request may carry
Thresholds == {100}

\* Confidences are integers in hundredths. json.loads also yields the literal
\* true for "confianza": true; it is encoded as JsonTrue, which Python
\* compares as the number 1 and prints as "True".
JsonTrue == 1000

\* the number a confidence compares as (True == 1)
Valor(x) == IF x = JsonTrue THEN 100 ELSE x

\* Decimal(str(x)) raises decimal.InvalidOperation for str(True) = "True"
DecimalStrFalla(x) == x = JsonTrue

\* answers of the external classifier that parse as JSON with both fields
LLMJson == { [categoria_pgc |-> "600", confianza |-> 75, explicacion |-> "llm"],
             [categoria_pgc |-> "705", confianza |-> 74],
             [categoria_pgc |-> "700", confianza |-> JsonTrue] }

\* categories a reviewer may correct to
CategoriasManual == {"623"}

VARIABLES
    reglasDB,      \* rows of regla_clasificacion
    historial,     \* human-validated classifications of earlier periods
    dbClasif,      \* committed rows of clasificacion written by the agent, each
                   \* tagged with the session id of the run that wrote it
    sessions,      \* _sessions of api/v1/clasificacion.py
    nextSid,       \* number of session ids drawn so far
    pc,            \* position of the request in flight ("idle": none)
    req,           \* the request in flight
    inicial,       \* initial_state of BaseAgent.run
    st,            \* the graph state of the run in flight
    dbSession,     \* objects added to the request's AsyncSession, not yet committed
    resp,          \* the last response an endpoint returned
    ejecutadas,    \* stages executed by the run in flight
    llmLlamadas,   \* records sent to the external classifier by the run in flight
    histConsultas, \* records looked up in the history by the run in flight
    persistencias, \* per session id, number of committed save_results
    adds,          \* number of db.add calls of the run in flight
    nReglaOps      \* number of rule requests so far

VARIABLES
    transaccionDB, \* committed rows of transaccion written by the upload endpoints
    subidos,       \* (endpoint, file) pairs uploaded and committed so far
    enviadas,      \* transactions sent in uploads the account check and the database accepted
    respExtracto,  \* the last response of an upload endpoint
    nUploads       \* number of upload requests so far

VARIABLES
    concSessions,  \* _sessions of api/v1/conciliacion.py
    dbConcil       \* committed rows of conciliacion

VARIABLES
    suspendida     \* the request handler that waits at an await while another one runs

varsClasificacion == <<reglasDB, historial, dbClasif, sessions, nextSid, pc, req, inicial, st,
                       dbSession, resp, ejecutadas, llmLlamadas, histConsultas, persistencias,
                       adds, nReglaOps>>

varsExtractos == <<transaccionDB, subidos, enviadas, respExtracto, nUploads>>

varsConciliacion == <<concSessions, dbConcil>>

\* what the event loop keeps of a suspended handler: its position, its locals
\* and the database session of its request
varsConcurrencia == <<suspendida>>

vars == <<varsClasificacion, varsExtractos, varsConciliacion, varsConcurrencia>>

\* the empty dict
Vacio == [k \in {} |-> 0]

\* a handler that is not serving any request
Ociosa ==
    [pc |-> "idle", req |-> Vacio, inicial |-> Vacio, st |-> Vacio, dbSession |-> <<>>,
     ejecutadas |-> {}, llmLlamadas |-> {}, histConsultas |-> {}, adds |-> 0]

\* requests are served one after the other
UnaSolaPeticion == suspendida = Ociosa

\* before the first upload request
SinExtractos ==
    /\ transaccionDB = {}
    /\ subidos = {}
    /\ enviadas = {}
    /\ respExtracto = Vacio
    /\ nUploads = 0

\* before the first reconciliation request
SinConciliacion ==
    /\ concSessions = Vacio
    /\ dbConcil = {}

Init ==
    /\ SinExtractos
    /\ UnaSolaPeticion
    /\ SinConciliacion
    /\ reglasDB \in {ReglasFijas, ReglasFijas \cup ReglasPool}
    /\ historial \in Historiales
    /\ dbClasif \in ClasificacionesPrevias
    /\ dbClasif # {} => reglasDB = ReglasFijas /\ historial = <<>>
    /\ sessions = Vacio
    /\ nextSid = 0
    /\ pc = "idle"
    /\ req = Vacio
    /\ inicial = Vacio
    /\ st = Vacio
    /\ dbSession = <<>>
    /\ resp = Vacio
    /\ ejecutadas = {}
    /\ llmLlamadas = {}
    /\ histConsultas = {}
    /\ persistencias = [s \in 1..MaxSessions |-> 0]
    /\ adds = 0
    /\ nReglaOps = 0

(* --------------------------- BaseAgent.run ----------------------------- *)
\* except branch of run: the caller gets initial_state with status "error"
ErrorResult(e) == Upd(inicial, [status |-> "error", error |-> e])

\* a stage raised: ainvoke propagates the exception to run
Falla(e) ==
    /\ st' = ErrorResult(e)
    /\ pc' = "fin"

(* ------------------------- ClasificacionAgent -------------------------- *)
\* the active rules of a tenant in an order the ORDER BY prioridad DESC allows
ReglasOrdenadas(tenant) ==
    LET F == {r \in reglasDB : r.tenant_id = tenant /\ r.activa}
        n == Cardinality(F)
    IN  {s \in [1..n -> F] :
            /\ \A i, j \in 1..n : i # j => s[i] # s[j]
            /\ \A i, j \in 1..n : i < j => s[i].prioridad >= s[j].prioridad}

\* the dict load_data keeps of a rule row
ReglaDict(r) == [id |-> r.id, condicion |-> r.condicion, categoria_pgc |-> r.categoria_pgc]

\* the dict load_data keeps of a transaction row
TxDict(t) == [id |-> t.id, concepto |-> t.concepto, importe |-> t.importe]

LoadData ==
    /\ pc = "load_data"
    /\ ejecutadas' = ejecutadas \cup {"load_data"}
    /\ LET tx_ids == Get(st, "transaccion_ids", {})
       IN  IF tx_ids = {}
           THEN st' = Upd(st, [transacciones |-> <<>>, reglas |-> <<>>,
                               clasificaciones |-> <<>>, status |-> "processing"])
           ELSE \E reglas \in ReglasOrdenadas(st.tenant_id) :
                    st' = Upd(st, [transacciones |->
                                       MapSeq(SelectSeq(TablaTransaccion, LAMBDA t : t.id \in tx_ids), TxDict),
                                   reglas |-> MapSeq(reglas, ReglaDict),
                                   clasificaciones |-> <<>>, status |-> "processing"])
    /\ pc' = "apply_rules"
    /\ UNCHANGED <<reglasDB, historial, dbClasif, sessions, nextSid, req, inicial, dbSession,
                   resp, llmLlamadas, histConsultas, persistencias, adds, nReglaOps>>
    /\ UNCHANGED <<varsExtractos, varsConciliacion>>
    /\ UNCHANGED varsConcurrencia

\* str(tx.get(campo, ""))
TxValor(tx, campo) ==
    IF campo \notin DOMAIN tx THEN <<>>
    ELSE IF campo = "importe" THEN StrFloat(tx.importe)
    ELSE IF campo = "id" THEN <<tx.id>>
    ELSE tx[campo]

MatchRule(tx, condicion) ==
    LET campo == Get(condicion, "campo", "concepto")
        operador == Get(condicion, "operador", "contains")
        valor == Lower(Get(condicion, "valor", <<>>))
        tx_valor == Lower(TxValor(tx, campo))
    IN  IF operador = "contains" THEN Contains(tx_valor, valor)
        ELSE IF operador = "equals" THEN valor = tx_valor
        ELSE IF operador = "startswith" THEN StartsWith(tx_valor, valor)
        ELSE FALSE

\* mutant of PrimeraRegla: the loop has no break and the last match wins
UltimaRegla(tx, reglas) ==
    IF \E i \in 1..Len(reglas) : MatchRule(tx, reglas[i].condicion)
    THEN CHOOSE i \in 1..Len(reglas) :
            /\ MatchRule(tx, reglas[i].condicion)
            /\ \A j \in (i + 1)..Len(reglas) : ~MatchRule(tx, reglas[j].condicion)
    ELSE 0

\* index of the rule at which the inner loop of apply_rules breaks, 0 if none
PrimeraRegla(tx, reglas) ==
    IF \E i \in 1..Len(reglas) : MatchRule(tx, reglas[i].condicion)
    THEN CHOOSE i \in 1..Len(reglas) :
            /\ MatchRule(tx, reglas[i].condicion)
            /\ \A j \in 1..(i - 1) : ~MatchRule(tx, reglas[j].condicion)
    ELSE 0

\* confidence apply_rules gives a rule decision, in hundredths
ConfianzaRegla == 99

\* mutant of DecisionRegla: a rule decision is certain
DecisionReglaCierta(tx, regla) ==
    [transaccion_id |-> tx.id, categoria_pgc |-> regla.categoria_pgc,
     confianza |-> 100, metodo |-> "regla", explicacion |-> regla.id]

DecisionRegla(tx, regla) ==
    [transaccion_id |-> tx.id, categoria_pgc |-> regla.categoria_pgc,
     confianza |-> ConfianzaRegla, metodo |-> "regla", explicacion |-> regla.id]

\* mutant of Pendientes: the classified transactions stay unresolved
PendientesSinFiltrar(txs, clasificadas_ids) == txs

\* the transactions apply_rules leaves unresolved
Pendientes(txs, clasificadas_ids) == SelectSeq(txs, LAMBDA t : t.id \notin clasificadas_ids)

ApplyRules ==
    /\ pc = "apply_rules"
    /\ ejecutadas' = ejecutadas \cup {"apply_rules"}
    /\ LET txs == Get(st, "transacciones", <<>>)
           reglas == Get(st, "reglas", <<>>)
           conRegla == SelectSeq(txs, LAMBDA t : PrimeraRegla(t, reglas) # 0)
           clasificaciones == MapSeq(conRegla, LAMBDA t : DecisionRegla(t, reglas[PrimeraRegla(t, reglas)]))
           clasificadas_ids == {c.transaccion_id : c \in Range(clasificaciones)}
           pendientes == Pendientes(txs, clasificadas_ids)
       IN  st' = Upd(st, [clasificaciones |-> clasificaciones, transacciones |-> pendientes])
    /\ pc' = "check_history"
    /\ UNCHANGED <<reglasDB, historial, dbClasif, sessions, nextSid, req, inicial, dbSession,
                   resp, llmLlamadas, histConsultas, persistencias, adds, nReglaOps>>
    /\ UNCHANGED <<varsExtractos, varsConciliacion>>
    /\ UNCHANGED varsConcurrencia

\* mutant of Acumular: the phase starts from an empty list
AcumularSinCopia(previas, nuevas) == nuevas

\* state.get("clasificaciones", []).copy() followed by the appends of a phase
Acumular(previas, nuevas) == previas \o nuevas

\* LIMIT of the history query
LimiteHistorico == 5

\* characters of the description the history query searches for
PrefijoHistorico == 20

\* base confidence of a history decision, in hundredths
ConfianzaHistorico == 85

\* rows the history query of check_history matches for a transaction
Coincidencias(tx) ==
    {i \in 1..Len(historial) :
        /\ historial[i].validado
        /\ Contains(Lower(historial[i].concepto), Lower(Take(tx.concepto, PrefijoHistorico)))}

\* results the query may return: LIMIT without ORDER BY keeps any rows
Consultas(tx) ==
    LET M == Coincidencias(tx)
        n == IF Cardinality(M) < LimiteHistorico THEN Cardinality(M) ELSE LimiteHistorico
    IN  {S \in SUBSET M : Cardinality(S) = n}

\* categorias.count(c) over the rows S
Cuenta(S, c) == Cardinality({i \in S : historial[i].categoria_pgc = c})

\* values max(set(categorias), key=categorias.count) may return
CategoriasComunes(S) ==
    {c \in {historial[i].categoria_pgc : i \in S} :
        \A d \in {historial[i].categoria_pgc : i \in S} : Cuenta(S, d) <= Cuenta(S, c)}

\* mutant of DecisionHistorico: the base confidence is not scaled
DecisionHistoricoBase(tx, S, c) ==
    [transaccion_id |-> tx.id, categoria_pgc |-> c, confianza |-> ConfianzaHistorico,
     metodo |-> "historico", explicacion |-> ToString(Cardinality(S))]

\* the decision check_history appends for tx from the rows S and the category c
DecisionHistorico(tx, S, c) ==
    [transaccion_id |-> tx.id, categoria_pgc |-> c,
     confianza |-> RoundHalfEven(ConfianzaHistorico * Cuenta(S, c), Cardinality(S)),
     metodo |-> "historico", explicacion |-> ToString(Cardinality(S))]

\* what one iteration of the loop of check_history may do with a transaction
HistOpciones(tx) ==
    IF Coincidencias(tx) = {} THEN { [hay |-> FALSE] }
    ELSE UNION { { [hay |-> TRUE, d |-> DecisionHistorico(tx, S, c)] : c \in CategoriasComunes(S) } :
                    S \in Consultas(tx) }

CheckHistory ==
    /\ pc = "check_history"
    /\ ejecutadas' = ejecutadas \cup {"check_history"}
    /\ LET previas == Get(st, "clasificaciones", <<>>)
           clasificadas_ids == {c.transaccion_id : c \in Range(previas)}
           txs == SelectSeq(Get(st, "transacciones", <<>>), LAMBDA t : t.id \notin clasificadas_ids)
           n == Len(txs)
           idx == [i \in 1..n |-> i]
       IN  /\ histConsultas' = histConsultas \cup {t.id : t \in Range(txs)}
           /\ \E h \in [1..n -> UNION {HistOpciones(txs[i]) : i \in 1..n}] :
                /\ \A i \in 1..n : h[i] \in HistOpciones(txs[i])
                /\ st' = Upd(st,
                        [clasificaciones |->
                            Acumular(previas, MapSeq(SelectSeq(idx, LAMBDA i : h[i].hay), LAMBDA i : h[i].d)),
                         transacciones |->
                            MapSeq(SelectSeq(idx, LAMBDA i : ~h[i].hay), LAMBDA i : txs[i])])
    /\ pc' = "llm_classify"
    /\ UNCHANGED <<reglasDB, historial, dbClasif, sessions, nextSid, req, inicial, dbSession,
                   resp, llmLlamadas, persistencias, adds, nReglaOps>>
    /\ UNCHANGED <<varsExtractos, varsConciliacion>>
    /\ UNCHANGED varsConcurrencia

(* ------------------ HFInferenceService.classify_transaction ------------ *)
\* the dict returned when the answer is not JSON
Fallback == [categoria_pgc |-> "629", nombre_categoria |-> "Otros servicios",
             confianza |-> 50, explicacion |-> "fallback"]

\* answers that parse as JSON but lack a field
LLMJsonIncompleto == { [categoria_pgc |-> "600"] }

\* outcomes of one call: a dict, or an exception once the retries are used up
ClassifyTransaction ==
    { [raise |-> FALSE, result |-> r] : r \in LLMJson \cup {Fallback} \cup LLMJsonIncompleto }
    \cup { [raise |-> TRUE] }

\* the loop body of llm_classify raises on this outcome
LlmFalla(o) == o.raise \/ "categoria_pgc" \notin DOMAIN o.result \/ "confianza" \notin DOMAIN o.result

DecisionLlm(tx, result) ==
    [transaccion_id |-> tx.id, categoria_pgc |-> result.categoria_pgc,
     confianza |-> result.confianza, metodo |-> "llm",
     explicacion |-> Get(result, "explicacion", "")]

LlmClassify ==
    /\ pc = "llm_classify"
    /\ ejecutadas' = ejecutadas \cup {"llm_classify"}
    /\ LET txs == Get(st, "transacciones", <<>>)
           n == Len(txs)
       IN  \E o \in [1..n -> ClassifyTransaction] :
              LET malas == {i \in 1..n : LlmFalla(o[i])}
                  k == IF malas = {} THEN n ELSE CHOOSE i \in malas : \A j \in malas : i <= j
              IN  \* the calls after a raising one are never made
                  /\ \A i \in (k + 1)..n : o[i] = [raise |-> TRUE]
                  /\ llmLlamadas' = llmLlamadas \cup {txs[i].id : i \in 1..k}
                  /\ IF malas # {}
                     THEN Falla(IF o[k].raise THEN "RetryError" ELSE "KeyError")
                     ELSE /\ st' = Upd(st, [clasificaciones |->
                                                Acumular(Get(st, "clasificaciones", <<>>),
                                                         [i \in 1..n |-> DecisionLlm(txs[i], o[i].result)]),
                                            transacciones |-> <<>>])
                          /\ pc' = "prepare_review"
    /\ UNCHANGED <<reglasDB, historial, dbClasif, sessions, nextSid, req, inicial, dbSession,
                   resp, histConsultas, persistencias, adds, nReglaOps>>
    /\ UNCHANGED <<varsExtractos, varsConciliacion>>
    /\ UNCHANGED varsConcurrencia

(* ------------------------------ review gate ---------------------------- *)
\* default of review_threshold in prepare_review, in hundredths
DefaultReviewThreshold == 75

\* mutant of PrepareReviewOp: a decision at the threshold is pending too
PrepareReviewLeq(state) ==
    LET threshold == Get(state, "review_threshold", 75)
        pendientes == SelectSeq(Get(state, "clasificaciones", <<>>),
                                LAMBDA c : Valor(c.confianza) <= threshold)
    IN  Upd(state, [pendientes_revision |-> pendientes,
                    requires_human |-> Len(pendientes) > 0,
                    status |-> IF pendientes # <<>> THEN "review" ELSE "completing"])

\* the dict prepare_review returns
PrepareReviewOp(state) ==
    LET threshold == Get(state, "review_threshold", DefaultReviewThreshold)
        pendientes == SelectSeq(Get(state, "clasificaciones", <<>>),
                                LAMBDA c : Valor(c.confianza) < threshold)
    IN  Upd(state, [pendientes_revision |-> pendientes,
                    requires_human |-> Len(pendientes) > 0,
                    status |-> IF pendientes # <<>> THEN "review" ELSE "completing"])

\* mutant of Route: the edge pauses whenever a decision is pending
RoutePausaSiempre(s) == IF Get(s, "requires_human", FALSE) THEN "pause" ELSE "continue"

\* mutant of Route: the edge never pauses
RouteSinPausa(s) == "continue"

\* the conditional edge after prepare_review
Route(s) ==
    IF Get(s, "requires_human", FALSE) /\ "human_feedback" \notin DOMAIN s THEN "pause" ELSE "continue"

PrepareReview ==
    /\ pc = "prepare_review"
    /\ ejecutadas' = ejecutadas \cup {"prepare_review"}
    /\ st' = PrepareReviewOp(st)
    /\ pc' = IF Route(st') = "pause" THEN "fin" ELSE "save_results"
    /\ UNCHANGED <<reglasDB, historial, dbClasif, sessions, nextSid, req, inicial, dbSession,
                   resp, llmLlamadas, histConsultas, persistencias, adds, nReglaOps>>
    /\ UNCHANGED <<varsExtractos, varsConciliacion>>
    /\ UNCHANGED varsConcurrencia

(* ------------------------------ save_results --------------------------- *)
\* feedback.get("correcciones", {}) of (state.get("human_feedback") or {})
Correcciones(state) == Get(Get(state, "human_feedback", Vacio), "correcciones", Vacio)

\* mutant of Corregir: the corrected decision keeps its method
CorregirSinMetodo(clasif, correcciones) ==
    IF clasif.transaccion_id \in DOMAIN correcciones
    THEN [clasif EXCEPT !.categoria_pgc = correcciones[clasif.transaccion_id], !.confianza = 100]
    ELSE clasif

\* the in-place correction of one decision
Corregir(clasif, correcciones) ==
    IF clasif.transaccion_id \in DOMAIN correcciones
    THEN [clasif EXCEPT !.categoria_pgc = correcciones[clasif.transaccion_id],
                        !.metodo = "manual", !.confianza = 100]
    ELSE clasif

\* the Clasificacion object built from a decision
FilaClasificacion(clasif) ==
    [transaccion_id |-> clasif.transaccion_id, categoria_pgc |-> clasif.categoria_pgc,
     confianza |-> clasif.confianza, metodo |-> clasif.metodo,
     explicacion |-> Get(clasif, "explicacion", "")]

\* clasificacion.transaccion_id is UNIQUE: the flush of these objects fails
ViolaUnique(filas) ==
    \/ \E i \in 1..Len(filas) : \E r \in dbClasif : r.fila.transaccion_id = filas[i].transaccion_id
    \/ \E i, j \in 1..Len(filas) : i # j /\ filas[i].transaccion_id = filas[j].transaccion_id

\* outcomes of "await self.db.commit()": "ok", or the exception it raises
\* (the unique index rejects the flush, or the database is unavailable)
Commit(filas) ==
    IF ViolaUnique(filas) THEN {"IntegrityError", "OperationalError"} ELSE {"ok", "OperationalError"}

SaveResults ==
    /\ pc = "save_results"
    /\ ejecutadas' = ejecutadas \cup {"save_results"}
    /\ LET correcciones == Correcciones(st)
           clasificaciones == MapSeq(Get(st, "clasificaciones", <<>>), LAMBDA c : Corregir(c, correcciones))
           n == Len(clasificaciones)
           \* the decisions whose Decimal(str(confianza)) raises inside the loop
           malas == {i \in 1..n : DecimalStrFalla(clasificaciones[i].confianza)}
           k == IF malas = {} THEN n + 1 ELSE CHOOSE i \in malas : \A j \in malas : i <= j
           filas == dbSession \o MapSeq(SubSeq(clasificaciones, 1, k - 1), FilaClasificacion)
           sid == st.session_id
       IN  /\ adds' = adds + (k - 1)
           /\ IF malas # {}
              THEN \* the loop raised: the objects added so far stay in the session
                   /\ dbSession' = filas
                   /\ Falla("InvalidOperation")
                   /\ UNCHANGED <<dbClasif, persistencias>>
              ELSE /\ dbSession' = <<>>
                   /\ \E e \in Commit(filas) :
                        IF e # "ok"
                        THEN /\ Falla(e)
                             /\ UNCHANGED <<dbClasif, persistencias>>
                        ELSE /\ dbClasif' = dbClasif \cup {[fila |-> f, sid |-> sid] : f \in Range(filas)}
                             /\ persistencias' = [persistencias EXCEPT ![sid] = @ + 1]
                             /\ st' = Upd(st, [clasificaciones |-> clasificaciones, status |-> "completed",
                                               results |-> [total |-> Len(clasificaciones),
                                                            clasificaciones |-> clasificaciones]])
                             /\ pc' = "fin"
    /\ UNCHANGED <<reglasDB, historial, sessions, nextSid, req, inicial, resp, llmLlamadas,
                   histConsultas, nReglaOps>>
    /\ UNCHANGED <<varsExtractos, varsConciliacion>>
    /\ UNCHANGED varsConcurrencia

(* ------------------------------- get_db -------------------------------- *)
\* "await session.commit()" after the endpoint has returned: the objects still
\* pending in the request's session are flushed and committed under the
\* session id of the run, or the transaction is rolled back
GetDbCommit(sid) ==
    IF dbSession = <<>>
    THEN {dbClasif}
    ELSE {IF e = "ok" THEN dbClasif \cup {[fila |-> f, sid |-> sid] : f \in Range(dbSession)} ELSE dbClasif :
             e \in Commit(dbSession)}

(* ----------------------- api/v1/clasificacion.py ----------------------- *)
\* default of ClasificacionBatchRequest.review_threshold, in hundredths
BatchReviewThreshold == 75

\* bodies of a /batch request
BatchRequests ==
    { [transaccion_ids |-> ids] : ids \in SUBSET TxIds } \cup
    { [transaccion_ids |-> ids, review_threshold |-> t] : ids \in SUBSET TxIds, t \in Thresholds }

\* bodies of a /validar request: a mapping transaccion_id -> categoria_pgc
ValidarRequests == UNION { [ids -> CategoriasManual] : ids \in {{}, {"t1"}, {"t2", "t9"}} }

\* the part of a run's result the endpoints return (a None is an absent key)
Respuesta(campos) == [k \in {"status", "results"} \cap DOMAIN campos |-> campos[k]]

\* POST /batch up to the call of agent.run
ClasificarBatch ==
    /\ pc = "idle"
    /\ nextSid < MaxSessions
    /\ \E request \in BatchRequests, tenant \in TenantsBatch :
          LET session_id == nextSid + 1
              initial_state == [tenant_id |-> tenant, session_id |-> session_id,
                                transaccion_ids |-> request.transaccion_ids,
                                review_threshold |-> Get(request, "review_threshold", BatchReviewThreshold)]
          IN  /\ nextSid' = session_id
              /\ req' = [tipo |-> "batch", session_id |-> session_id]
              /\ inicial' = initial_state
              /\ st' = initial_state
    /\ pc' = "load_data"
    /\ dbSession' = <<>>
    /\ ejecutadas' = {}
    /\ llmLlamadas' = {}
    /\ histConsultas' = {}
    /\ adds' = 0
    /\ UNCHANGED <<reglasDB, historial, dbClasif, sessions, resp, persistencias, nReglaOps>>
    /\ UNCHANGED <<varsExtractos, varsConciliacion>>
    /\ UNCHANGED varsConcurrencia

\* POST /batch after agent.run has returned
BatchReturn ==
    /\ pc = "fin"
    /\ req.tipo = "batch"
    /\ sessions' = IF Get(st, "status", "") = "review"
                   THEN Upd(sessions, [s \in {req.session_id} |-> st])
                   ELSE sessions
    /\ resp' = Upd([code |-> 200, session_id |-> req.session_id,
                    requires_human |-> Get(st, "requires_human", FALSE),
                    clasificaciones |-> Get(st, "clasificaciones", <<>>),
                    pendientes_revision |-> Get(st, "pendientes_revision", <<>>)],
                   Respuesta(st))
    /\ pc' = "idle"
    /\ req' = Vacio
    /\ inicial' = Vacio
    /\ st' = Vacio
    /\ dbSession' = <<>>
    /\ ejecutadas' = {}
    /\ llmLlamadas' = {}
    /\ histConsultas' = {}
    /\ adds' = 0
    /\ dbClasif' \in GetDbCommit(req.session_id)
    /\ UNCHANGED <<reglasDB, historial, nextSid, persistencias, nReglaOps>>
    /\ UNCHANGED <<varsExtractos, varsConciliacion>>
    /\ UNCHANGED varsConcurrencia

\* POST /{session_id}/validar for an unknown session id
ValidarNoEncontrada ==
    /\ pc = "idle"
    /\ \E session_id \in 1..MaxSessions :
          /\ session_id \notin DOMAIN sessions
          /\ resp' = [code |-> 404, session_id |-> session_id]
    /\ UNCHANGED <<reglasDB, historial, dbClasif, sessions, nextSid, pc, req, inicial, st, dbSession,
                   ejecutadas, llmLlamadas, histConsultas, persistencias, adds, nReglaOps>>
    /\ UNCHANGED <<varsExtractos, varsConciliacion>>
    /\ UNCHANGED varsConcurrencia

\* mutant of ValidarAccesoDenegado: the feedback is attached before the tenant
\* of the caller is compared
ValidarAccesoDenegadoTarde ==
    /\ pc = "idle"
    /\ \E session_id \in DOMAIN sessions, tenant \in Tenants, correcciones \in ValidarRequests :
          /\ Get(sessions[session_id], "tenant_id", "") # tenant
          /\ sessions' = [sessions EXCEPT ![session_id] =
                              Upd(@, [human_feedback |-> [correcciones |-> correcciones,
                                                          validado_por |-> tenant]])]
          /\ resp' = [code |-> 403, session_id |-> session_id]
    /\ UNCHANGED <<reglasDB, historial, dbClasif, nextSid, pc, req, inicial, st, dbSession,
                   ejecutadas, llmLlamadas, histConsultas, persistencias, adds, nReglaOps>>
    /\ UNCHANGED <<varsExtractos, varsConciliacion>>
    /\ UNCHANGED varsConcurrencia

\* POST /{session_id}/validar by a user of another tenant
ValidarAccesoDenegado ==
    /\ pc = "idle"
    /\ \E session_id \in DOMAIN sessions, tenant \in Tenants :
          /\ Get(sessions[session_id], "tenant_id", "") # tenant
          /\ resp' = [code |-> 403, session_id |-> session_id]
    /\ UNCHANGED <<reglasDB, historial, dbClasif, sessions, nextSid, pc, req, inicial, st, dbSession,
                   ejecutadas, llmLlamadas, histConsultas, persistencias, adds, nReglaOps>>
    /\ UNCHANGED <<varsExtractos, varsConciliacion>>
    /\ UNCHANGED varsConcurrencia

\* POST /{session_id}/validar up to the call of agent.run
ValidarClasificaciones ==
    /\ pc = "idle"
    /\ \E session_id \in DOMAIN sessions, correcciones \in ValidarRequests :
          LET tenant == Get(sessions[session_id], "tenant_id", "")
              state == Upd(sessions[session_id],
                           [human_feedback |-> [correcciones |-> correcciones, validado_por |-> tenant]])
          IN  /\ sessions' = [sessions EXCEPT ![session_id] = state]
              /\ req' = [tipo |-> "validar", session_id |-> session_id]
              /\ inicial' = state
              /\ st' = state
    /\ pc' = "load_data"
    /\ dbSession' = <<>>
    /\ ejecutadas' = {}
    /\ llmLlamadas' = {}
    /\ histConsultas' = {}
    /\ adds' = 0
    /\ UNCHANGED <<reglasDB, historial, dbClasif, nextSid, resp, persistencias, nReglaOps>>
    /\ UNCHANGED <<varsExtractos, varsConciliacion>>
    /\ UNCHANGED varsConcurrencia

\* "del _sessions[session_id]" is reached and raises KeyError: the run has
\* completed and the entry is no longer in the store
DelFalla(ses, session_id, result) ==
    Get(result, "status", "") = "completed" /\ session_id \notin DOMAIN ses

\* mutant of SesionesTrasValidar: a completed session is kept
SesionesSinBorrar(ses, session_id, result) == ses

\* _sessions after the resumed run has returned result
SesionesTrasValidar(ses, session_id, result) ==
    IF Get(result, "status", "") = "completed" THEN Del(ses, session_id) ELSE ses

\* POST /{session_id}/validar after agent.run has returned
ValidarReturn ==
    /\ pc = "fin"
    /\ req.tipo = "validar"
    /\ sessions' = SesionesTrasValidar(sessions, req.session_id, st)
    /\ resp' = IF DelFalla(sessions, req.session_id, st)
               THEN [code |-> 500, session_id |-> req.session_id, error |-> "KeyError"]
               ELSE Upd([code |-> 200, session_id |-> req.session_id], Respuesta(st))
    /\ pc' = "idle"
    /\ req' = Vacio
    /\ inicial' = Vacio
    /\ st' = Vacio
    /\ dbSession' = <<>>
    /\ ejecutadas' = {}
    /\ llmLlamadas' = {}
    /\ histConsultas' = {}
    /\ adds' = 0
    /\ dbClasif' \in IF DelFalla(sessions, req.session_id, st) THEN {dbClasif} ELSE GetDbCommit(req.session_id)
    /\ UNCHANGED <<reglasDB, historial, nextSid, persistencias, nReglaOps>>
    /\ UNCHANGED <<varsExtractos, varsConciliacion>>
    /\ UNCHANGED varsConcurrencia

\* POST /reglas
CreateRegla ==
    /\ pc = "idle"
    /\ nReglaOps < MaxReglaOps
    /\ \E regla \in ReglasPool \ reglasDB : reglasDB' = reglasDB \cup {regla}
    /\ nReglaOps' = nReglaOps + 1
    /\ UNCHANGED <<historial, dbClasif, sessions, nextSid, pc, req, inicial, st, dbSession, resp,
                   ejecutadas, llmLlamadas, histConsultas, persistencias, adds>>
    /\ UNCHANGED <<varsExtractos, varsConciliacion>>
    /\ UNCHANGED varsConcurrencia

\* DELETE /reglas/{regla_id} of a rule of the caller's tenant
DeleteRegla ==
    /\ pc = "idle"
    /\ nReglaOps < MaxReglaOps
    /\ \E regla \in reglasDB, tenant \in TenantsBatch :
          /\ regla.tenant_id = tenant
          /\ reglasDB' = reglasDB \ {regla}
    /\ nReglaOps' = nReglaOps + 1
    /\ UNCHANGED <<historial, dbClasif, sessions, nextSid, pc, req, inicial, st, dbSession, resp,
                   ejecutadas, llmLlamadas, histConsultas, persistencias, adds>>
    /\ UNCHANGED <<varsExtractos, varsConciliacion>>
    /\ UNCHANGED varsConcurrencia

Next ==
    \/ ClasificarBatch
    \/ LoadData
    \/ ApplyRules
    \/ CheckHistory
    \/ LlmClassify
    \/ PrepareReview
    \/ SaveResults
    \/ BatchReturn
    \/ ValidarNoEncontrada
    \/ ValidarAccesoDenegado
    \/ ValidarClasificaciones
    \/ ValidarReturn
    \/ CreateRegla
    \/ DeleteRegla

Spec == Init /\ [][Next]_vars

(* ------------------------------ properties ----------------------------- *)
\* the run in flight was started by /validar, resp. by /batch
EsValidar == Get(req, "tipo", "") = "validar"
EsBatch == Get(req, "tipo", "") = "batch"

\* agent.run has returned to the endpoint
Terminado == pc = "fin"

\* the decisions of a state as (record, category, method, confidence)
Decisiones(state) ==
    {<<c.transaccion_id, c.categoria_pgc, c.metodo, c.confianza>> :
        c \in Range(Get(state, "clasificaciones", <<>>))}

\* the rows a session id has committed, as (record, category, method, confidence)
Persistidas(sid) ==
    {<<r.fila.transaccion_id, r.fila.categoria_pgc, r.fila.metodo, r.fila.confianza>> :
        r \in {x \in dbClasif : x.sid = sid}}

\* the stages that complete before the review gate
EtapasPrevias == {"load_data", "apply_rules", "check_history", "llm_classify"}

\* C1: a run resumed from "review" with feedback continues after the review
\* gate: it executes none of load_data, apply_rules, check_history and
\* llm_classify again and calls the external classifier for no record.
C1_ResumeSkipsCompletedStages ==
    EsValidar => (ejecutadas \cap EtapasPrevias = {} /\ llmLlamadas = {})

\* C2: a resumed run that completes persists and reports exactly the paused
\* decisions D with the records named in the corrections F corrected; every
\* record outside F keeps its paused category, method and confidence.
C2_ResumeKeepsPausedDecisions ==
    (Terminado /\ EsValidar /\ Get(st, "status", "") = "completed") =>
        LET sid == req.session_id
            F == sessions[sid].human_feedback.correcciones
            D == Decisiones(sessions[sid])
            esperadas == {d \in D : d[1] \notin DOMAIN F} \cup
                         {<<d[1], F[d[1]], "manual", 100>> : d \in {e \in D : e[1] \in DOMAIN F}}
        IN  /\ Decisiones(st.results) = esperadas
            /\ Persistidas(sid) = esperadas

\* C3: a run that ends with a decision below the review threshold and without
\* human_feedback ends in status "review" with requires_human true, has
\* added no Clasificacion row and has committed nothing.
C3_PausedRunPersistsNothing ==
    (/\ Terminado
     /\ "human_feedback" \notin DOMAIN st
     /\ \E c \in Range(Get(st, "clasificaciones", <<>>)) : Valor(c.confianza) < Get(st, "review_threshold", 75))
    => /\ Get(st, "status", "") = "review"
       /\ Get(st, "requires_human", FALSE)
       /\ "save_results" \notin ejecutadas
       /\ adds = 0
       /\ dbSession = <<>>
       /\ persistencias[req.session_id] = 0
       /\ Persistidas(req.session_id) = {}

\* C3 witness: a /batch run has paused in review on a decision below the threshold.
C3_Witness ==
    /\ Terminado
    /\ EsBatch
    /\ Get(st, "status", "") = "review"
    /\ \E c \in Range(Get(st, "clasificaciones", <<>>)) : Valor(c.confianza) < st.review_threshold
    /\ \E c \in Range(Get(st, "clasificaciones", <<>>)) : Valor(c.confianza) >= st.review_threshold
    /\ adds = 0

\* C4 as stated: once a /validar request on a paused session has run
\* save_results, the decisions of the session have been added and committed
\* exactly once in total.
C4_ResumePersistsExactlyOnce ==
    (Terminado /\ EsValidar /\ "save_results" \in ejecutadas) =>
        (persistencias[req.session_id] = 1 /\ Persistidas(req.session_id) # {})

(* --------------- the review gate over arbitrary decision lists ---------- *)
\* length of the decision lists the gate is applied to
MaxDecisiones == 2

\* decisions of every phase around the default and the extreme thresholds
DecisionesReview ==
    { [transaccion_id |-> "t1", categoria_pgc |-> "600", confianza |-> c, metodo |-> m, explicacion |-> ""] :
        c \in {0, 74, 75, 76, 100}, m \in {"regla", "historico", "llm"} }

\* states llm_classify may hand to prepare_review: with or without a
\* review_threshold, with or without human_feedback
EstadosReview ==
    LET base == { [tenant_id |-> "ta", session_id |-> 1, transaccion_ids |-> {"t1"},
                   transacciones |-> <<>>, reglas |-> <<>>, status |-> "processing",
                   clasificaciones |-> cs] :
                    cs \in UNION { [1..n -> DecisionesReview] : n \in 0..MaxDecisiones } }
        umbral == {Vacio} \cup { [review_threshold |-> t] : t \in {0, 75, 100} }
        feedback == {Vacio, [human_feedback |-> [correcciones |-> Vacio, validado_por |-> "ta"]]}
    IN  { Upd(Upd(b, u), f) : b \in base, u \in umbral, f \in feedback }

InitReview ==
    /\ SinExtractos
    /\ UnaSolaPeticion
    /\ SinConciliacion
    /\ reglasDB = ReglasFijas
    /\ historial = <<>>
    /\ dbClasif = {}
    /\ sessions = Vacio
    /\ nextSid = 1
    /\ pc = "prepare_review"
    /\ req = [tipo |-> "batch", session_id |-> 1]
    /\ st \in EstadosReview
    /\ inicial = [tenant_id |-> "ta", session_id |-> 1, transaccion_ids |-> {"t1"}]
    /\ dbSession = <<>>
    /\ resp = Vacio
    /\ ejecutadas = EtapasPrevias
    /\ llmLlamadas = {}
    /\ histConsultas = {}
    /\ persistencias = [s \in 1..MaxSessions |-> 0]
    /\ adds = 0
    /\ nReglaOps = 0

NextReview == PrepareReview

SpecReview == InitReview /\ [][NextReview]_vars

\* the graph state is the output of prepare_review
TrasPrepareReview ==
    /\ pc \in {"fin", "save_results"}
    /\ "prepare_review" \in ejecutadas
    /\ "save_results" \notin ejecutadas

\* C5: with T the review_threshold of the state, or 0.75 when the state has
\* none, prepare_review lists in pendientes_revision exactly the decisions
\* with confidence < T, whatever their phase, and sets requires_human iff
\* that list is non-empty.
C5_ReviewGate ==
    TrasPrepareReview =>
        LET T == IF "review_threshold" \in DOMAIN st THEN st.review_threshold ELSE 75
            cs == st.clasificaciones
            ps == st.pendientes_revision
        IN  /\ \A c \in Range(cs) : (c \in Range(ps)) <=> (Valor(c.confianza) < T)
            /\ Range(ps) \subseteq Range(cs)
            /\ Len(ps) = Cardinality({i \in 1..Len(cs) : Valor(cs[i].confianza) < T})
            /\ st.requires_human <=> (ps # <<>>)

\* C5 witness: a state without review_threshold went through the gate; the
\* decision at 0.74 is pending, the one at 0.75 is not.
C5_Witness ==
    /\ TrasPrepareReview
    /\ "review_threshold" \notin DOMAIN st
    /\ \E c \in Range(st.clasificaciones) : c.confianza = 74 /\ c \in Range(st.pendientes_revision)
    /\ \E c \in Range(st.clasificaciones) : c.confianza = 75 /\ c \notin Range(st.pendientes_revision)
    /\ st.requires_human

(* ------------------------- the cascade (C6 - C9) ----------------------- *)
\* the graph state is the live state of the cascade after apply_rules
EnCascada == pc \in {"check_history", "llm_classify", "prepare_review", "save_results"}

\* record ids of a list of dicts
Ids(xs, campo) == {xs[i][campo] : i \in 1..Len(xs)}

\* the decisions of the live state made by a method
IdsPorMetodo(m) == {c.transaccion_id : c \in {d \in Range(st.clasificaciones) : d.metodo = m}}

\* C6: a record classified by a rule leaves the unresolved set and is neither
\* looked up in the history nor sent to the external classifier; a record
\* classified by history is not sent to the external classifier; no record
\* gets a second decision.
C6_CascadeMonotone ==
    /\ [](EnCascada =>
            /\ \A i, j \in 1..Len(st.clasificaciones) :
                  i # j => st.clasificaciones[i].transaccion_id # st.clasificaciones[j].transaccion_id
            /\ IdsPorMetodo("regla") \cap (histConsultas \cup llmLlamadas) = {}
            /\ IdsPorMetodo("historico") \cap llmLlamadas = {}
            /\ Ids(st.transacciones, "id") \cap Ids(st.clasificaciones, "transaccion_id") = {})
    /\ [][/\ pc = "check_history" => histConsultas' \cap Ids(st.clasificaciones, "transaccion_id") = {}
          /\ pc = "llm_classify" => llmLlamadas' \cap Ids(st.clasificaciones, "transaccion_id") = {}]_vars

\* C6 witness: the external phase has run on one record while another one was
\* classified by a rule.
C6_Witness ==
    /\ pc = "prepare_review"
    /\ IdsPorMetodo("regla") = {"t1"}
    /\ llmLlamadas = {"t2"}
    /\ histConsultas = {"t2"}

\* ids of the rows of the table transaccion
StoredIds == {TablaTransaccion[i].id : i \in 1..Len(TablaTransaccion)}

\* every decision list has one decision per record, made by one of the phases
UnaDecisionPorRegistro(ids) ==
    LET cs == st.clasificaciones
    IN  /\ \A i, j \in 1..Len(cs) : i # j => cs[i].transaccion_id # cs[j].transaccion_id
        /\ Ids(cs, "transaccion_id") = ids
        /\ IdsPorMetodo("regla") \cup IdsPorMetodo("historico") \cup IdsPorMetodo("llm") = ids
        /\ IdsPorMetodo("regla") \cap IdsPorMetodo("historico") = {}
        /\ IdsPorMetodo("regla") \cap IdsPorMetodo("llm") = {}
        /\ IdsPorMetodo("historico") \cap IdsPorMetodo("llm") = {}
        /\ st.transacciones = <<>>

\* C7 as stated: after the external phase there is exactly one decision for
\* every requested record; the rule, history and external decisions are
\* disjoint and cover the requested set.
C7_OneDecisionPerRequested ==
    pc = "prepare_review" => UnaDecisionPorRegistro(st.transaccion_ids)

\* C7 amended: after the external phase there is exactly one decision for
\* every requested record that is stored in the table transaccion, and none
\* for a requested id that names no stored record.
C7_OneDecisionPerStored ==
    pc = "prepare_review" => UnaDecisionPorRegistro(st.transaccion_ids \cap StoredIds)

\* C7 witness: two stored records and an unknown id were requested and the
\* external phase has run.
C7_Witness ==
    /\ pc = "prepare_review"
    /\ st.transaccion_ids = {"t1", "t2", "t9"}
    /\ IdsPorMetodo("regla") = {"t1"}
    /\ IdsPorMetodo("llm") = {"t2"}

\* prioridad of the rule row with an id
Prioridad(id) == (CHOOSE r \in ReglasPool \cup ReglasFijas : r.id = id).prioridad

\* the requested rows of the table transaccion, as load_data hands them on
Cargadas == {TxDict(TablaTransaccion[i]) : i \in {j \in 1..Len(TablaTransaccion) :
                                                    TablaTransaccion[j].id \in st.transaccion_ids}}

\* positions of the loaded rules that match a transaction
Coinciden(tx) == {i \in 1..Len(st.reglas) : MatchRule(tx, st.reglas[i].condicion)}

\* C8: the rules loaded for a non-empty request are the tenant's active rules,
\* in descending priority; a record matching some rule gets exactly one rule decision, whose category
\* is that of a matching rule of highest priority; a record matching no rule
\* gets none.
C8_FirstMatchWins ==
    pc = "check_history" =>
        /\ \A i, j \in 1..Len(st.reglas) :
              i < j => Prioridad(st.reglas[i].id) >= Prioridad(st.reglas[j].id)
        /\ st.transaccion_ids # {} =>
              Ids(st.reglas, "id") = {r.id : r \in {x \in reglasDB : x.activa /\ x.tenant_id = st.tenant_id}}
        /\ \A tx \in Cargadas :
              LET suyas == {k \in 1..Len(st.clasificaciones) : st.clasificaciones[k].transaccion_id = tx.id}
              IN  IF Coinciden(tx) = {}
                  THEN suyas = {}
                  ELSE /\ Cardinality(suyas) = 1
                       /\ \A k \in suyas :
                            \E i \in Coinciden(tx) :
                               /\ st.clasificaciones[k].explicacion = st.reglas[i].id
                               /\ st.clasificaciones[k].categoria_pgc = st.reglas[i].categoria_pgc
                               /\ \A j \in Coinciden(tx) :
                                     Prioridad(st.reglas[i].id) >= Prioridad(st.reglas[j].id)

\* C8 witness: t1 matches rules of priority 2 and 1 and got the category of one
\* of priority 2.
C8_Witness ==
    /\ pc = "check_history"
    /\ {"r1", "r2"} \subseteq {st.reglas[i].id : i \in Coinciden(TxDict(TablaTransaccion[1]))}
    /\ \E c \in Range(st.clasificaciones) : c.transaccion_id = "t1" /\ c.categoria_pgc = "628"

\* a record matched by a loaded rule has a rule decision with this confidence
\* and was not sent to the external classifier
DecisionDeRegla(confianza) ==
    \A tx \in Cargadas :
        Coinciden(tx) # {} =>
            /\ tx.id \notin llmLlamadas
            /\ \E c \in Range(st.clasificaciones) :
                  /\ c.transaccion_id = tx.id
                  /\ c.metodo = "regla"
                  /\ c.confianza = confianza
                  /\ c.categoria_pgc \in {st.reglas[i].categoria_pgc : i \in Coinciden(tx)}

C10_SaveResultsFrame ==
    [][(pc = "save_results" /\ pc' = "fin" /\ Get(st', "status", "") = "completed") =>
          LET F == IF "human_feedback" \in DOMAIN st THEN st.human_feedback.correcciones ELSE Vacio
              antes == st.clasificaciones
              despues == st'.clasificaciones
          IN  /\ Len(despues) = Len(antes)
              /\ \A i \in 1..Len(antes) :
                    IF antes[i].transaccion_id \in DOMAIN F
                    THEN /\ despues[i].transaccion_id = antes[i].transaccion_id
                         /\ despues[i].categoria_pgc = F[antes[i].transaccion_id]
                         /\ despues[i].metodo = "manual"
                         /\ despues[i].confianza = 100
                    ELSE despues[i] = antes[i]
              /\ st'.results.total = Len(antes)
              /\ st'.results.clasificaciones = despues
              /\ {r.fila : r \in dbClasif' \ dbClasif} = {FilaClasificacion(despues[i]) : i \in 1..Len(despues)}
              /\ Cardinality(dbClasif' \ dbClasif) = Len(antes)
              /\ dbClasif \subseteq dbClasif']_vars

\* C10 witness: a resume committed with corrections for t2 and for t9, which has
\* no decision: t2 is manual, t1 kept its rule decision, two rows are stored.
C10_Witness ==
    /\ Terminado
    /\ EsValidar
    /\ Get(st, "status", "") = "completed"
    /\ DOMAIN st.human_feedback.correcciones = {"t2", "t9"}
    /\ \E c \in Range(st.clasificaciones) : c.transaccion_id = "t2" /\ c.metodo = "manual"
    /\ \E c \in Range(st.clasificaciones) : c.transaccion_id = "t1" /\ c.metodo = "regla"
    /\ st.results.total = 2
    /\ Cardinality(Persistidas(req.session_id)) = 2

(* ---------------------- failures of a run (C11 - C14) ------------------- *)
\* the run in flight has ended in status "error"
EnError == Terminado /\ Get(st, "status", "") = "error"

\* C11: persistence of a run is all-or-nothing. Rows are stored for a session
\* only by a save_results that committed all its decisions; a run whose
\* save_results failed (while adding a decision or at commit) ends in status
\* "error" with the failure reported and none of its decisions is stored.
C11_AllOrNothing ==
    /\ \A sid \in 1..MaxSessions : Persistidas(sid) # {} => persistencias[sid] >= 1
    /\ (Terminado /\ "save_results" \in ejecutadas /\ Get(st, "status", "") # "completed") =>
          /\ EnError
          /\ Get(st, "error", "") # ""
          /\ Persistidas(req.session_id) = {}

\* C12: when a stage raises, the run ends in status "error" with a non-empty
\* fault description and returns the last good state, that is the output of
\* the last stage that completed (the input of the stage that raised) with
\* only status and error changed.
C12_ErrorKeepsLastGoodState ==
    [][(pc # "fin" /\ pc' = "fin" /\ Get(st', "status", "") = "error") =>
          /\ Get(st', "error", "") # ""
          /\ st' = Upd(st, [status |-> "error", error |-> st'.error])]_vars

\* C13: a classifier call that fails after its retries is isolated to its
\* record: no run that called the external classifier ends in status "error"
\* because of it.
C13_RecordFailureIsolated ==
    (Terminado /\ llmLlamadas # {}) => ~(EnError /\ Get(st, "error", "") = "RetryError")

\* C14: a malformed answer of the external classifier never crashes the run:
\* no run ends in status "error" on an answer that is JSON without the
\* category or the confidence field, and every decision made from the
\* fallback of a non-JSON answer is below the default review threshold.
C14_MalformedResponseDegrades ==
    /\ (Terminado /\ llmLlamadas # {}) => ~(EnError /\ Get(st, "error", "") = "KeyError")
    /\ \A c \in Range(Get(st, "clasificaciones", <<>>)) :
          (c.metodo = "llm" /\ c.categoria_pgc = Fallback.categoria_pgc /\ c.explicacion = Fallback.explicacion)
              => Valor(c.confianza) < DefaultReviewThreshold

(* ========================= api/v1/extractos.py ========================= *)
\* number of upload requests
MaxUploads == 3

\* the ISO form of the one date of the uploaded rows, as one token
Fecha == <<"2024-01-15">>

\* TransaccionRaw rows the parsers produce from the uploaded files; a None
\* field is an absent key. FilaA2 is FilaA with other metadata (saldo),
\* FilaC is FilaA without reference, FilaB differs from FilaA in concepto,
\* importe and referencia.
FilaA == [fecha |-> Fecha, concepto |-> <<"x">>, importe |-> 5, referencia |-> <<"7", ".", "0">>]

FilaA2 == [fecha |-> Fecha, concepto |-> <<"x">>, importe |-> 5, referencia |-> <<"7", ".", "0">>, saldo |-> 100]

FilaB == [fecha |-> Fecha, concepto |-> <<"x", "|", "5", ".", "0">>, importe |-> 7]

FilaC == [fecha |-> Fecha, concepto |-> <<"x">>, importe |-> 5]

\* parser.parse(content) of the files the callers upload: the rows in file order
Extractos ==
    { <<>>, <<FilaA>>, <<FilaA2>>, <<FilaB>>, <<FilaC>>,
      <<FilaA, FilaA2>>, <<FilaA, FilaB>>, <<FilaC, FilaA>> }

\* the "|" that joins the hash inputs
Separador == <<"|">>

\* TransaccionRaw.compute_hash: the digest is modelled as injective on the
\* hashed string (no collision of sha256, nor of its first 16 hex digits)
ComputeHash(tx) ==
    LET data == tx.fecha \o Separador \o tx.concepto \o Separador \o StrFloat(tx.importe)
        referencia == Get(tx, "referencia", <<>>)
    IN  <<"sha256">> \o (IF referencia # <<>> THEN data \o Separador \o referencia ELSE data)

\* the hash of upload_extracto_smart: md5 of fecha|concepto|importe
SmartHash(tx_data) ==
    <<"md5">> \o tx_data.fecha \o Separador \o tx_data.concepto \o Separador \o StrFloat(tx_data.importe)

\* the Transaccion object an upload endpoint builds
FilaTransaccion(tx, tx_hash) ==
    Upd([fecha |-> tx.fecha, concepto |-> tx.concepto, importe |-> tx.importe,
         tipo |-> IF tx.importe > 0 THEN "ingreso" ELSE "gasto", hash |-> tx_hash],
        [k \in {"referencia"} \cap DOMAIN tx |-> tx[k]])

\* mutant of HashesVisibles: the committed rows are not consulted
HashesPendientes(nuevas) == {r.hash : r \in Range(nuevas)}

\* the hashes "select(Transaccion).where(Transaccion.hash == tx_hash)" can find:
\* the committed rows and, by autoflush, the objects added earlier in the loop
HashesVisibles(nuevas) == {r.hash : r \in transaccionDB \cup Range(nuevas)}

\* the loop over the rows of one upload; via is "upload" or "smart"
RECURSIVE Procesar(_, _, _)
Procesar(filas, via, acc) ==
    IF filas = <<>>
    THEN acc
    ELSE LET tx == Head(filas)
             tx_hash == IF via = "upload" THEN ComputeHash(tx) ELSE SmartHash(tx)
         IN  Procesar(Tail(filas), via,
                      IF tx_hash \in HashesVisibles(acc.nuevas)
                      THEN [acc EXCEPT !.duplicados = @ + 1]
                      ELSE [acc EXCEPT !.nuevas = Append(@, FilaTransaccion(tx, tx_hash)),
                                       !.created = @ + 1])

\* SmartParserAgent.run: detect_format reads self.logger, which BaseAgent never
\* sets, so the first stage raises AttributeError and run returns the error state
SmartParserRun(initial_state) == Upd(initial_state, [status |-> "error", error |-> "AttributeError"])

\* date, description, amount and reference of a row (no reference: empty)
Semantica(tx) == <<tx.fecha, tx.concepto, tx.importe, Get(tx, "referencia", <<>>)>>

\* outcomes of "await db.commit()" of an upload
CommitExtracto == {"ok", "OperationalError"}

\* the loop and the commit shared by both endpoints, then the response
Guardar(endpoint, archivo, filas, via) ==
    LET r == Procesar(filas, via, [nuevas |-> <<>>, created |-> 0, duplicados |-> 0])
    IN  \E e \in CommitExtracto :
           IF e = "ok"
           THEN /\ transaccionDB' = transaccionDB \cup Range(r.nuevas)
                /\ subidos' = subidos \cup {<<endpoint, archivo>>}
                /\ enviadas' = enviadas \cup {Semantica(tx) : tx \in Range(archivo)}
                /\ respExtracto' = [code |-> 200, endpoint |-> endpoint, archivo |-> archivo,
                                    repetido |-> <<endpoint, archivo>> \in subidos,
                                    transacciones_creadas |-> r.created,
                                    duplicados_ignorados |-> r.duplicados,
                                    total_en_archivo |-> Len(filas)]
           ELSE /\ respExtracto' = [code |-> 500, endpoint |-> endpoint, archivo |-> archivo]
                /\ UNCHANGED <<transaccionDB, subidos, enviadas>>

\* POST /extractos/upload
UploadExtracto ==
    /\ nUploads < MaxUploads
    /\ nUploads' = nUploads + 1
    /\ \E archivo \in Extractos, cuenta_del_tenant \in BOOLEAN :
          IF ~cuenta_del_tenant
          THEN /\ respExtracto' = [code |-> 404, endpoint |-> "upload", archivo |-> archivo]
               /\ UNCHANGED <<transaccionDB, subidos, enviadas>>
          ELSE IF archivo = <<>>
          THEN /\ respExtracto' = [code |-> 400, endpoint |-> "upload", archivo |-> archivo]
               /\ UNCHANGED <<transaccionDB, subidos, enviadas>>
          ELSE Guardar("upload", archivo, archivo, "upload")
    /\ UNCHANGED <<varsClasificacion, varsConciliacion>>
    /\ UNCHANGED varsConcurrencia

\* POST /extractos/upload-smart
UploadExtractoSmart ==
    /\ nUploads < MaxUploads
    /\ nUploads' = nUploads + 1
    /\ \E archivo \in Extractos, cuenta_del_tenant \in BOOLEAN :
          IF ~cuenta_del_tenant
          THEN /\ respExtracto' = [code |-> 404, endpoint |-> "upload-smart", archivo |-> archivo]
               /\ UNCHANGED <<transaccionDB, subidos, enviadas>>
          ELSE LET result == SmartParserRun([file |-> archivo, transacciones |-> <<>>,
                                             transacciones_validadas |-> <<>>, errores |-> <<>>])
               IN  IF Get(result, "status", "") = "error"
                   THEN /\ respExtracto' = [code |-> 400, endpoint |-> "upload-smart",
                                            archivo |-> archivo, detail |-> result.error]
                        /\ enviadas' = enviadas \cup {Semantica(tx) : tx \in Range(archivo)}
                        /\ UNCHANGED <<transaccionDB, subidos>>
                   ELSE Guardar("upload-smart", archivo, Get(result, "transacciones_validadas", <<>>), "smart")
    /\ UNCHANGED <<varsClasificacion, varsConciliacion>>
    /\ UNCHANGED varsConcurrencia

InitExtractos ==
    /\ SinExtractos
    /\ UnaSolaPeticion
    /\ SinConciliacion
    /\ reglasDB = ReglasFijas
    /\ historial = <<>>
    /\ dbClasif = {}
    /\ sessions = Vacio
    /\ nextSid = 0
    /\ pc = "idle"
    /\ req = Vacio
    /\ inicial = Vacio
    /\ st = Vacio
    /\ dbSession = <<>>
    /\ resp = Vacio
    /\ ejecutadas = {}
    /\ llmLlamadas = {}
    /\ histConsultas = {}
    /\ persistencias = [s \in 1..MaxSessions |-> 0]
    /\ adds = 0
    /\ nReglaOps = 0

NextExtractos ==
    \/ UploadExtracto
    \/ UploadExtractoSmart

SpecExtractos == InitExtractos /\ [][NextExtractos]_vars

(* ----------------------- deduplication (C15 - C17) ---------------------- *)
\* C15: once a file has been uploaded and committed through an endpoint, every
\* later upload of the same file through the same endpoint that is answered
\* 200 leaves the table unchanged, creates zero records and counts every row
\* of the file as a duplicate.
C15_ReuploadAddsNothing ==
    [][(/\ nUploads' = nUploads + 1
        /\ respExtracto'.code = 200
        /\ <<respExtracto'.endpoint, respExtracto'.archivo>> \in subidos)
       => /\ transaccionDB' = transaccionDB
          /\ respExtracto'.transacciones_creadas = 0
          /\ respExtracto'.duplicados_ignorados = Len(respExtracto'.archivo)]_vars

\* C15 witness: the third upload of a two-row file whose first upload was
\* committed created nothing and counted both rows as duplicates.
C15_Witness ==
    /\ nUploads = 3
    /\ Get(respExtracto, "code", 0) = 200
    /\ respExtracto.repetido
    /\ respExtracto.archivo = <<FilaC, FilaA>>
    /\ respExtracto.transacciones_creadas = 0
    /\ respExtracto.duplicados_ignorados = 2
    /\ Cardinality(transaccionDB) = 2

\* C16: every transaction (date, description, amount, reference) sent in an
\* upload, through either endpoint and any number of times, is stored as
\* exactly one record.
C16_OneRecordPerTransaction ==
    \A s \in enviadas : Cardinality({r \in transaccionDB : Semantica(r) = s}) = 1

\* the rows of the files committed through /upload
FilasSubidas == UNION {Range(p[2]) : p \in {q \in subidos : q[1] = "upload"}}

\* C17: over the rows committed through /upload, two rows have the same hash
\* exactly when they agree on date, description, amount and reference, and
\* every one of them is stored under its hash.
C17_HashOfTheFourFields ==
    /\ \A a, b \in FilasSubidas : (ComputeHash(a) = ComputeHash(b)) <=> (Semantica(a) = Semantica(b))
    /\ \A a \in FilasSubidas :
          \E r \in transaccionDB : r.hash = ComputeHash(a) /\ Semantica(r) = Semantica(a)

(* ======================= ConciliacionAgent ============================ *)
\* length of the match list a matching tier hands to the review gate
MaxMatches == 2

\* table transaccion joined with cuenta_bancaria, ordered by fecha; dates are
\* day numbers
TransaccionesConc ==
    << [id |-> "t1", fecha |-> 10, concepto |-> <<"R", "I">>, importe |-> -45, empresa_id |-> "e1"],
       [id |-> "t2", fecha |-> 25, concepto |-> <<"N">>, importe |-> 2500, empresa_id |-> "e1"],
       [id |-> "t3", fecha |-> 25, concepto |-> <<>>, importe |-> 10, empresa_id |-> "e2"] >>

\* a periodo_inicio / periodo_fin that date.fromisoformat rejects
FechaInvalida == 0 - 1

\* bodies of POST /conciliacion/iniciar
ConcRequests ==
    { [empresa_id |-> e, periodo_inicio |-> p[1], periodo_fin |-> p[2]] :
        e \in {"e1", "e2"}, p \in {<<1, 31>>, <<20, 31>>, <<FechaInvalida, 31>>} } \cup
    { [empresa_id |-> "e1", periodo_inicio |-> 1, periodo_fin |-> 31, auto_approve_threshold |-> 100] }

\* default of auto_approve_threshold in the agent, in hundredths
DefaultAutoApprove == 95

\* default of ConciliacionRequest.auto_approve_threshold, in hundredths
RequestAutoApprove == 95

\* the dict load_data builds from a row
ConcTxDict(t) == [id |-> t.id, fecha |-> t.fecha, concepto |-> t.concepto, importe |-> t.importe]

\* the dict load_data returns when both dates parse
ConcLoadDataOp(state) ==
    Upd(state, [transacciones |->
                    MapSeq(SelectSeq(TransaccionesConc,
                                     LAMBDA t : /\ t.empresa_id = state.empresa_id
                                                /\ t.fecha >= state.periodo_inicio
                                                /\ t.fecha <= state.periodo_fin),
                           ConcTxDict),
                matches_exactos |-> <<>>, matches_fuzzy |-> <<>>, propuestas |-> <<>>,
                discrepancias |-> <<>>, status |-> "processing"])

\* ConciliacionAgent.load_data
ConcLoadData ==
    /\ pc = "conc_load_data"
    /\ ejecutadas' = ejecutadas \cup {"load_data"}
    /\ IF st.periodo_inicio = FechaInvalida \/ st.periodo_fin = FechaInvalida
       THEN /\ st' = ErrorResult("ValueError")
            /\ pc' = "conc_fin"
       ELSE /\ st' = ConcLoadDataOp(st)
            /\ pc' = "exact_match"
    /\ UNCHANGED <<reglasDB, historial, dbClasif, sessions, nextSid, req, inicial, dbSession, resp,
                   llmLlamadas, histConsultas, persistencias, adds, nReglaOps>>
    /\ UNCHANGED <<varsExtractos, varsConciliacion>>
    /\ UNCHANGED varsConcurrencia

\* ConciliacionAgent.exact_match: not implemented, returns no match
ExactMatch ==
    /\ pc = "exact_match"
    /\ ejecutadas' = ejecutadas \cup {"exact_match"}
    /\ st' = Upd(st, [matches_exactos |-> <<>>])
    /\ pc' = "fuzzy_match"
    /\ UNCHANGED <<reglasDB, historial, dbClasif, sessions, nextSid, req, inicial, dbSession, resp,
                   llmLlamadas, histConsultas, persistencias, adds, nReglaOps>>
    /\ UNCHANGED <<varsExtractos, varsConciliacion>>
    /\ UNCHANGED varsConcurrencia

\* ConciliacionAgent.fuzzy_match: not implemented, returns no match
FuzzyMatch ==
    /\ pc = "fuzzy_match"
    /\ ejecutadas' = ejecutadas \cup {"fuzzy_match"}
    /\ st' = Upd(st, [matches_fuzzy |-> <<>>])
    /\ pc' = "conc_prepare_review"
    /\ UNCHANGED <<reglasDB, historial, dbClasif, sessions, nextSid, req, inicial, dbSession, resp,
                   llmLlamadas, histConsultas, persistencias, adds, nReglaOps>>
    /\ UNCHANGED <<varsExtractos, varsConciliacion>>
    /\ UNCHANGED varsConcurrencia

\* mutant of MatchedTxIds: only the first match counts
MatchedTxIdsPrimero(all_matches) ==
    IF all_matches = <<>> THEN {} ELSE {all_matches[1].transaccion_id}

\* matched_tx_ids of prepare_review
MatchedTxIds(all_matches) == {m.transaccion_id : m \in Range(all_matches)}

\* {**m, "estado": e}
ConEstado(m, e) == Upd(m, [estado |-> e])

\* mutant of ConcPrepareReviewOp: a match at the threshold is pending review
ConcPrepareReviewEstricto(state) ==
    LET threshold == Get(state, "auto_approve_threshold", 95)
        all_matches == Get(state, "matches_exactos", <<>>) \o Get(state, "matches_fuzzy", <<>>)
        auto_approved == MapSeq(SelectSeq(all_matches, LAMBDA m : Get(m, "confianza", 0) > threshold),
                                LAMBDA m : ConEstado(m, "auto_aprobado"))
        needs_review == MapSeq(SelectSeq(all_matches, LAMBDA m : Get(m, "confianza", 0) <= threshold),
                               LAMBDA m : ConEstado(m, "pendiente_revision"))
        matched_tx_ids == MatchedTxIds(all_matches)
        discrepancias == MapSeq(SelectSeq(Get(state, "transacciones", <<>>),
                                          LAMBDA tx : tx.id \notin matched_tx_ids),
                                LAMBDA tx : [transaccion_id |-> tx.id, tipo |-> "sin_match",
                                             concepto |-> Get(tx, "concepto", <<>>)])
    IN  Upd(state, [propuestas |-> auto_approved \o needs_review,
                    discrepancias |-> discrepancias,
                    requires_human |-> Len(needs_review) > 0,
                    status |-> IF needs_review # <<>> THEN "review" ELSE "processing"])

\* the dict ConciliacionAgent.prepare_review returns
ConcPrepareReviewOp(state) ==
    LET threshold == Get(state, "auto_approve_threshold", DefaultAutoApprove)
        all_matches == Get(state, "matches_exactos", <<>>) \o Get(state, "matches_fuzzy", <<>>)
        auto_approved == MapSeq(SelectSeq(all_matches, LAMBDA m : Get(m, "confianza", 0) >= threshold),
                                LAMBDA m : ConEstado(m, "auto_aprobado"))
        needs_review == MapSeq(SelectSeq(all_matches, LAMBDA m : Get(m, "confianza", 0) < threshold),
                               LAMBDA m : ConEstado(m, "pendiente_revision"))
        matched_tx_ids == MatchedTxIds(all_matches)
        discrepancias == MapSeq(SelectSeq(Get(state, "transacciones", <<>>),
                                          LAMBDA tx : tx.id \notin matched_tx_ids),
                                LAMBDA tx : [transaccion_id |-> tx.id, tipo |-> "sin_match",
                                             concepto |-> Get(tx, "concepto", <<>>)])
    IN  Upd(state, [propuestas |-> auto_approved \o needs_review,
                    discrepancias |-> discrepancias,
                    requires_human |-> Len(needs_review) > 0,
                    status |-> IF needs_review # <<>> THEN "review" ELSE "processing"])

\* mutant of ShouldPauseForReview: the edge never pauses
NuncaPausar(state) == "continue"

\* ConciliacionAgent._should_pause_for_review
ShouldPauseForReview(state) ==
    LET threshold == Get(state, "auto_approve_threshold", DefaultAutoApprove)
        propuestas_pendientes == SelectSeq(Get(state, "propuestas", <<>>),
                                           LAMBDA p : Get(p, "confianza", 0) < threshold)
    IN  IF propuestas_pendientes # <<>> /\ "human_feedback" \notin DOMAIN state
        THEN "pause"
        ELSE "continue"

\* ConciliacionAgent.prepare_review and the conditional edge after it
ConcPrepareReview ==
    /\ pc = "conc_prepare_review"
    /\ ejecutadas' = ejecutadas \cup {"prepare_review"}
    /\ st' = ConcPrepareReviewOp(st)
    /\ pc' = IF ShouldPauseForReview(st') = "pause" THEN "conc_fin" ELSE "apply_decisions"
    /\ UNCHANGED <<reglasDB, historial, dbClasif, sessions, nextSid, req, inicial, dbSession, resp,
                   llmLlamadas, histConsultas, persistencias, adds, nReglaOps>>
    /\ UNCHANGED <<varsExtractos, varsConciliacion>>
    /\ UNCHANGED varsConcurrencia

\* mutant of Decidir: the rejections of the feedback are ignored
DecidirSinRechazo(propuesta, aprobadas, rechazadas) ==
    IF propuesta.transaccion_id \in aprobadas \/ propuesta.estado = "auto_aprobado"
    THEN ConEstado(propuesta, "validado")
    ELSE propuesta

\* the first loop of apply_decisions on one proposal
Decidir(propuesta, aprobadas, rechazadas) ==
    IF propuesta.transaccion_id \in aprobadas THEN ConEstado(propuesta, "validado")
    ELSE IF propuesta.transaccion_id \in rechazadas THEN ConEstado(propuesta, "rechazado")
    ELSE IF propuesta.estado = "auto_aprobado" THEN ConEstado(propuesta, "validado")
    ELSE propuesta

\* the Conciliacion object built from a validated proposal
FilaConciliacion(propuesta) ==
    [transaccion_id |-> propuesta.transaccion_id, asiento_id |-> Get(propuesta, "asiento_id", ""),
     confianza |-> propuesta.confianza, estado |-> "validado", match_type |-> propuesta.metodo]

\* conciliacion.transaccion_id is UNIQUE: the flush of these objects fails
ConcViolaUnique(filas) ==
    \/ \E i \in 1..Len(filas) : \E r \in dbConcil : r.fila.transaccion_id = filas[i].transaccion_id
    \/ \E i, j \in 1..Len(filas) : i # j /\ filas[i].transaccion_id = filas[j].transaccion_id

\* outcomes of "await self.db.commit()" in apply_decisions
ConcCommit(filas) ==
    IF ConcViolaUnique(filas) THEN {"IntegrityError", "OperationalError"} ELSE {"ok", "OperationalError"}

\* ConciliacionAgent.apply_decisions
ApplyDecisions ==
    /\ pc = "apply_decisions"
    /\ ejecutadas' = ejecutadas \cup {"apply_decisions"}
    /\ LET feedback == Get(st, "human_feedback", Vacio)
           aprobadas == Get(feedback, "aprobadas", {})
           rechazadas == Get(feedback, "rechazadas", {})
           propuestas == MapSeq(Get(st, "propuestas", <<>>), LAMBDA p : Decidir(p, aprobadas, rechazadas))
           filas == MapSeq(SelectSeq(propuestas, LAMBDA p : p.estado = "validado"), FilaConciliacion)
       IN  \E e \in ConcCommit(filas) :
              IF e # "ok"
              THEN /\ st' = ErrorResult(e)
                   /\ pc' = "conc_fin"
                   /\ UNCHANGED dbConcil
              ELSE /\ dbConcil' = dbConcil \cup {[fila |-> f, sid |-> st.session_id] : f \in Range(filas)}
                   /\ st' = Upd(st, [propuestas |-> propuestas, status |-> "completing"])
                   /\ pc' = "generate_summary"
    /\ UNCHANGED <<reglasDB, historial, dbClasif, sessions, nextSid, req, inicial, dbSession, resp,
                   llmLlamadas, histConsultas, persistencias, adds, nReglaOps>>
    /\ UNCHANGED <<varsExtractos, concSessions>>
    /\ UNCHANGED varsConcurrencia

\* ConciliacionAgent.generate_summary; the rate is in tenths of a percent
GenerateSummary ==
    /\ pc = "generate_summary"
    /\ ejecutadas' = ejecutadas \cup {"generate_summary"}
    /\ LET total == Len(Get(st, "transacciones", <<>>))
           conciliadas == Len(SelectSeq(Get(st, "propuestas", <<>>), LAMBDA p : Get(p, "estado", "") = "validado"))
           pendientes == Len(Get(st, "discrepancias", <<>>))
       IN  st' = Upd(st, [status |-> "completed",
                          results |-> [total_transacciones |-> total, conciliadas |-> conciliadas,
                                       pendientes |-> pendientes,
                                       tasa_conciliacion |->
                                           IF total > 0 THEN RoundHalfEven(conciliadas * 1000, total) ELSE 0,
                                       propuestas |-> Get(st, "propuestas", <<>>),
                                       discrepancias |-> Get(st, "discrepancias", <<>>)]])
    /\ pc' = "conc_fin"
    /\ UNCHANGED <<reglasDB, historial, dbClasif, sessions, nextSid, req, inicial, dbSession, resp,
                   llmLlamadas, histConsultas, persistencias, adds, nReglaOps>>
    /\ UNCHANGED <<varsExtractos, varsConciliacion>>
    /\ UNCHANGED varsConcurrencia

(* ------------------------ api/v1/conciliacion.py ------------------------ *)
\* the initial_state that POST /conciliacion/iniciar builds
ConcInitialState(request, tenant, session_id) ==
    [tenant_id |-> tenant, session_id |-> session_id,
     empresa_id |-> request.empresa_id,
     periodo_inicio |-> request.periodo_inicio,
     periodo_fin |-> request.periodo_fin,
     asientos |-> <<>>,
     auto_approve_threshold |-> Get(request, "auto_approve_threshold", RequestAutoApprove)]

\* POST /conciliacion/iniciar up to the call of agent.run
IniciarConciliacion ==
    /\ pc = "idle"
    /\ nextSid < MaxSessions
    /\ \E request \in ConcRequests, tenant \in TenantsBatch :
          LET session_id == nextSid + 1
              initial_state == ConcInitialState(request, tenant, session_id)
          IN  /\ nextSid' = session_id
              /\ req' = [tipo |-> "iniciar", session_id |-> session_id]
              /\ inicial' = initial_state
              /\ st' = initial_state
    /\ pc' = "conc_load_data"
    /\ ejecutadas' = {}
    /\ UNCHANGED <<reglasDB, historial, dbClasif, sessions, dbSession, resp, llmLlamadas,
                   histConsultas, persistencias, adds, nReglaOps>>
    /\ UNCHANGED <<varsExtractos, varsConciliacion>>
    /\ UNCHANGED varsConcurrencia

\* POST /conciliacion/iniciar after agent.run has returned
IniciarReturn ==
    /\ pc = "conc_fin"
    /\ req.tipo = "iniciar"
    /\ concSessions' = IF Get(st, "status", "") = "review"
                       THEN Upd(concSessions, [s \in {req.session_id} |-> st])
                       ELSE concSessions
    /\ resp' = Upd([code |-> 200, session_id |-> req.session_id,
                    requires_human |-> Get(st, "requires_human", FALSE),
                    propuestas |-> Get(st, "propuestas", <<>>),
                    discrepancias |-> Get(st, "discrepancias", <<>>)],
                   Respuesta(st))
    /\ pc' = "idle"
    /\ req' = Vacio
    /\ inicial' = Vacio
    /\ st' = Vacio
    /\ ejecutadas' = {}
    /\ UNCHANGED <<reglasDB, historial, dbClasif, sessions, nextSid, dbSession, llmLlamadas,
                   histConsultas, persistencias, adds, nReglaOps>>
    /\ UNCHANGED <<varsExtractos, dbConcil>>
    /\ UNCHANGED varsConcurrencia

\* GET /conciliacion/{session_id}
GetSession ==
    /\ pc = "idle"
    /\ \E session_id \in 1..MaxSessions, tenant \in Tenants :
          resp' = IF session_id \notin DOMAIN concSessions
                  THEN [code |-> 404, session_id |-> session_id]
                  ELSE IF Get(concSessions[session_id], "tenant_id", "") # tenant
                  THEN [code |-> 403, session_id |-> session_id]
                  ELSE Upd([code |-> 200, session_id |-> session_id,
                            propuestas |-> Get(concSessions[session_id], "propuestas", <<>>),
                            discrepancias |-> Get(concSessions[session_id], "discrepancias", <<>>)],
                           Respuesta(concSessions[session_id]))
    /\ UNCHANGED <<reglasDB, historial, dbClasif, sessions, nextSid, pc, req, inicial, st, dbSession,
                   ejecutadas, llmLlamadas, histConsultas, persistencias, adds, nReglaOps>>
    /\ UNCHANGED <<varsExtractos, varsConciliacion>>
    /\ UNCHANGED varsConcurrencia

\* bodies of POST /conciliacion/{session_id}/validar
ConciliacionValidates ==
    { [propuestas |-> a, rechazadas |-> r] :
        a \in {{}, {"t1"}, {"t1", "t2"}}, r \in {{}, {"t1"}, {"t2"}} }

\* the stored state with the human feedback added to it
ConFeedback(state, validacion, sub) ==
    Upd(state, [human_feedback |-> [aprobadas |-> validacion.propuestas,
                                    rechazadas |-> validacion.rechazadas,
                                    validado_por |-> sub]])

\* POST /conciliacion/{session_id}/validar for an unknown session
ValidarPropuestasNoEncontrada ==
    /\ pc = "idle"
    /\ \E session_id \in 1..MaxSessions :
          /\ session_id \notin DOMAIN concSessions
          /\ resp' = [code |-> 404, session_id |-> session_id]
    /\ UNCHANGED <<reglasDB, historial, dbClasif, sessions, nextSid, pc, req, inicial, st, dbSession,
                   ejecutadas, llmLlamadas, histConsultas, persistencias, adds, nReglaOps>>
    /\ UNCHANGED <<varsExtractos, varsConciliacion>>
    /\ UNCHANGED varsConcurrencia

\* POST /conciliacion/{session_id}/validar by a user of another tenant
ValidarPropuestasAccesoDenegado ==
    /\ pc = "idle"
    /\ \E session_id \in DOMAIN concSessions, tenant \in Tenants :
          /\ Get(concSessions[session_id], "tenant_id", "") # tenant
          /\ resp' = [code |-> 403, session_id |-> session_id]
    /\ UNCHANGED <<reglasDB, historial, dbClasif, sessions, nextSid, pc, req, inicial, st, dbSession,
                   ejecutadas, llmLlamadas, histConsultas, persistencias, adds, nReglaOps>>
    /\ UNCHANGED <<varsExtractos, varsConciliacion>>
    /\ UNCHANGED varsConcurrencia

\* POST /conciliacion/{session_id}/validar up to the call of agent.run
ValidarPropuestas ==
    /\ pc = "idle"
    /\ \E session_id \in DOMAIN concSessions, validacion \in ConciliacionValidates :
          LET tenant == Get(concSessions[session_id], "tenant_id", "")
              state == ConFeedback(concSessions[session_id], validacion, tenant)
          IN  /\ concSessions' = [concSessions EXCEPT ![session_id] = state]
              /\ req' = [tipo |-> "validar", session_id |-> session_id]
              /\ inicial' = state
              /\ st' = state
    /\ pc' = "conc_load_data"
    /\ ejecutadas' = {}
    /\ UNCHANGED <<reglasDB, historial, dbClasif, sessions, nextSid, dbSession, resp, llmLlamadas,
                   histConsultas, persistencias, adds, nReglaOps>>
    /\ UNCHANGED <<varsExtractos, dbConcil>>
    /\ UNCHANGED varsConcurrencia

\* POST /conciliacion/{session_id}/validar after agent.run has returned
ValidarPropuestasReturn ==
    /\ pc = "conc_fin"
    /\ req.tipo = "validar"
    /\ concSessions' = IF Get(st, "status", "") = "completed"
                       THEN Del(concSessions, req.session_id)
                       ELSE concSessions
    /\ resp' = IF DelFalla(concSessions, req.session_id, st)
               THEN [code |-> 500, session_id |-> req.session_id, error |-> "KeyError"]
               ELSE Upd([code |-> 200, session_id |-> req.session_id], Respuesta(st))
    /\ pc' = "idle"
    /\ req' = Vacio
    /\ inicial' = Vacio
    /\ st' = Vacio
    /\ ejecutadas' = {}
    /\ UNCHANGED <<reglasDB, historial, dbClasif, sessions, nextSid, dbSession, llmLlamadas,
                   histConsultas, persistencias, adds, nReglaOps>>
    /\ UNCHANGED <<varsExtractos, dbConcil>>
    /\ UNCHANGED varsConcurrencia

(* ------------------- the specification of the section ------------------- *)
\* what a matching tier can pair a bank transaction with; confidences are in
\* hundredths
Matches ==
    { [transaccion_id |-> "t1", asiento_id |-> "a1", confianza |-> 95, metodo |-> "exact"],
      [transaccion_id |-> "t1", asiento_id |-> "a2", confianza |-> 94, metodo |-> "fuzzy"],
      [transaccion_id |-> "t2", asiento_id |-> "a3", confianza |-> 100, metodo |-> "exact"],
      [transaccion_id |-> "t2", asiento_id |-> "a1", confianza |-> 50, metodo |-> "fuzzy"] }

\* the match lists of at most MaxMatches matches
ListasDeMatches == UNION { [1..n -> Matches] : n \in 0..MaxMatches }

\* the state that reaches prepare_review when the two matching tiers have
\* found the matches ms in the transactions that load_data read
TrasMatching(initial_state, ms) ==
    Upd(ConcLoadDataOp(initial_state),
        [matches_exactos |-> SelectSeq(ms, LAMBDA m : m.metodo = "exact"),
         matches_fuzzy |-> SelectSeq(ms, LAMBDA m : m.metodo = "fuzzy")])

\* no classification request has been made
SinClasificacion ==
    /\ reglasDB = ReglasFijas
    /\ historial = <<>>
    /\ dbClasif = {}
    /\ sessions = Vacio
    /\ dbSession = <<>>
    /\ resp = Vacio
    /\ llmLlamadas = {}
    /\ histConsultas = {}
    /\ persistencias = [s \in 1..MaxSessions |-> 0]
    /\ adds = 0
    /\ nReglaOps = 0

\* Either no request is in flight, or a run is at the review gate. The two
\* matching tiers are not implemented (they return []), so the match lists the
\* gate is applied to are drawn here: a first run of /iniciar, or a run
\* resumed by /validar after a first run paused on the same matches.
InitConciliacion ==
    /\ SinExtractos
    /\ UnaSolaPeticion
    /\ SinClasificacion
    /\ dbConcil = {}
    /\ \/ /\ pc = "idle"
          /\ nextSid = 0
          /\ req = Vacio
          /\ inicial = Vacio
          /\ st = Vacio
          /\ ejecutadas = {}
          /\ concSessions = Vacio
       \/ \E request \in ConcRequests, ms \in ListasDeMatches :
             LET initial_state == ConcInitialState(request, "ta", 1)
                 cargado == ConcLoadDataOp(initial_state)
                 pausado == ConcPrepareReviewOp(TrasMatching(initial_state, ms))
             IN  /\ request.periodo_inicio # FechaInvalida
                 /\ \A m \in Range(ms) : \E tx \in Range(cargado.transacciones) : tx.id = m.transaccion_id
                 /\ pc = "conc_prepare_review"
                 /\ ejecutadas = {"load_data", "exact_match", "fuzzy_match"}
                 /\ nextSid = 1
                 /\ \/ /\ req = [tipo |-> "iniciar", session_id |-> 1]
                       /\ inicial = initial_state
                       /\ st = TrasMatching(initial_state, ms)
                       /\ concSessions = Vacio
                    \/ \E validacion \in ConciliacionValidates :
                          /\ pausado.status = "review"
                          /\ req = [tipo |-> "validar", session_id |-> 1]
                          /\ inicial = ConFeedback(pausado, validacion, "ta")
                          /\ st = TrasMatching(inicial, ms)
                          /\ concSessions = [s \in {1} |-> inicial]

NextConciliacion ==
    \/ IniciarConciliacion
    \/ ConcLoadData
    \/ ExactMatch
    \/ FuzzyMatch
    \/ ConcPrepareReview
    \/ ApplyDecisions
    \/ GenerateSummary
    \/ IniciarReturn
    \/ ValidarPropuestasNoEncontrada
    \/ ValidarPropuestasAccesoDenegado
    \/ ValidarPropuestas
    \/ ValidarPropuestasReturn
    \/ GetSession

SpecConciliacion == InitConciliacion /\ [][NextConciliacion]_vars

(* ------------------- review gate (C18 - C20) ---------------------------- *)
\* the graph state is the output of the review gate of a run
TrasGate ==
    /\ pc \in {"conc_fin", "apply_decisions"}
    /\ "prepare_review" \in ejecutadas
    /\ "apply_decisions" \notin ejecutadas

\* the threshold of the run, in hundredths
Umbral == IF "auto_approve_threshold" \in DOMAIN st THEN st.auto_approve_threshold ELSE 95

\* the merged exact and approximate match lists of the state
TodosLosMatches == st.matches_exactos \o st.matches_fuzzy

\* a proposal without its state
SinEstado(p) == [k \in DOMAIN p \ {"estado"} |-> p[k]]

\* C18: after the review gate every match of the merged exact and approximate
\* lists is in the proposals exactly as often as it is in the merged list,
\* with state "auto_aprobado" if its confidence is >= the threshold (0.95 when
\* the request names none) and "pendiente_revision" otherwise, the proposals
\* hold nothing else, and requires_human is true iff a proposal is pending.
C18_ReconciliationGate ==
    TrasGate =>
        LET ps == st.propuestas
            esperado(m) == IF m.confianza >= Umbral THEN "auto_aprobado" ELSE "pendiente_revision"
        IN  /\ Len(ps) = Len(TodosLosMatches)
            /\ \A m \in Range(TodosLosMatches) :
                  Cardinality({i \in 1..Len(ps) : SinEstado(ps[i]) = m /\ ps[i].estado = esperado(m)})
                      = Cardinality({i \in 1..Len(TodosLosMatches) : TodosLosMatches[i] = m})
            /\ st.requires_human <=> (\E i \in 1..Len(ps) : ps[i].estado = "pendiente_revision")

\* C18 witness: under the default threshold the gate auto-approved a match of
\* confidence 0.95, left one of confidence 0.94 pending and set requires_human.
C18_Witness ==
    /\ TrasGate
    /\ Umbral = 95
    /\ \E i, j \in 1..Len(st.propuestas) :
          /\ st.propuestas[i].confianza = 95 /\ st.propuestas[i].estado = "auto_aprobado"
          /\ st.propuestas[j].confianza = 94 /\ st.propuestas[j].estado = "pendiente_revision"
    /\ st.requires_human

\* C19: after the review gate every loaded transaction is the subject of a
\* proposal or listed as a discrepancy, never both and never neither, and the
\* discrepancies are exactly the loaded transactions with no exact and no
\* approximate match, each listed once.
C19_ProposalOrDiscrepancy ==
    TrasGate =>
        LET ps == st.propuestas
            ds == st.discrepancias
            txs == st.transacciones
            propuesta(id) == \E i \in 1..Len(ps) : ps[i].transaccion_id = id
            discrepancia(id) == \E i \in 1..Len(ds) : ds[i].transaccion_id = id
            conMatch(id) == \E i \in 1..Len(TodosLosMatches) : TodosLosMatches[i].transaccion_id = id
        IN  /\ \A t \in 1..Len(txs) : propuesta(txs[t].id) # discrepancia(txs[t].id)
            /\ \A t \in 1..Len(txs) : discrepancia(txs[t].id) <=> ~conMatch(txs[t].id)
            /\ \A i \in 1..Len(ds) : \E t \in 1..Len(txs) : txs[t].id = ds[i].transaccion_id
            /\ \A i, j \in 1..Len(ds) : ds[i].transaccion_id = ds[j].transaccion_id => i = j

\* C19 witness: of two loaded transactions the second has two proposals and
\* the first is the only discrepancy.
C19_Witness ==
    /\ TrasGate
    /\ Len(st.transacciones) = 2
    /\ Len(st.propuestas) = 2
    /\ \A i \in 1..2 : st.propuestas[i].transaccion_id = st.transacciones[2].id
    /\ Len(st.discrepancias) = 1
    /\ st.discrepancias[1].transaccion_id = st.transacciones[1].id

\* the review gate left a proposal pending, resp. the run has no feedback
HayPendiente == \E i \in 1..Len(st.propuestas) : st.propuestas[i].estado = "pendiente_revision"
SinFeedback == "human_feedback" \notin DOMAIN st

\* the Conciliacion rows stored by the run in flight
FilasDeLaSesion == {r \in dbConcil : r.sid = req.session_id}

\* a run with a pending proposal and no feedback ends at the gate with status
\* "review" and nothing stored; any other run goes on to apply_decisions
PausaEnElGate ==
    TrasGate =>
        IF HayPendiente /\ SinFeedback
        THEN /\ pc = "conc_fin"
             /\ st.status = "review"
             /\ FilasDeLaSesion = {}
        ELSE pc = "apply_decisions"

\* the endpoint stores the state of a paused run under its session id, and
\* stores no Conciliacion row
GuardaLaSesion ==
    (pc = "conc_fin" /\ TrasGate /\ pc' = "idle")
        => /\ req.session_id \in DOMAIN concSessions'
           /\ concSessions'[req.session_id] = st
           /\ dbConcil' = dbConcil

\* the run in flight has ended after apply_decisions
TrasApplyDecisions == pc = "conc_fin" /\ "apply_decisions" \in ejecutadas

\* C20 as stated: a run with a pending proposal and no feedback ends at the
\* gate with status "review", without apply_decisions, without a stored
\* Conciliacion row and with its state kept under the session id; every other
\* run that reaches the gate goes on to apply_decisions and ends "completed".
C20_PauseOrCompleted ==
    /\ [](PausaEnElGate)
    /\ [][GuardaLaSesion]_vars
    /\ [](TrasApplyDecisions => st.status = "completed")

\* C20 amended: as stated for the paused run; every other run that reaches the
\* gate goes on to apply_decisions and ends "completed" if the commit of
\* apply_decisions succeeds, and otherwise (database failure, or two validated
\* proposals for the same transaction against the unique transaccion_id) ends
\* "error" with no Conciliacion row stored.
C20_PauseOrCompletedOrError ==
    /\ [](PausaEnElGate)
    /\ [][GuardaLaSesion]_vars
    /\ [](TrasApplyDecisions =>
            \/ st.status = "completed" /\ "generate_summary" \in ejecutadas
            \/ st.status = "error" /\ "generate_summary" \notin ejecutadas /\ FilasDeLaSesion = {})

\* C20 witness: a run paused on a pending proposal, its state was stored, and
\* the run resumed with feedback went through apply_decisions to "completed".
C20_Witness ==
    /\ TrasApplyDecisions
    /\ st.status = "completed"
    /\ req.tipo = "validar"
    /\ "human_feedback" \in DOMAIN st
    /\ req.session_id \in DOMAIN concSessions
    /\ concSessions[req.session_id].status = "review"
    /\ \E i \in 1..Len(concSessions[req.session_id].propuestas) :
          concSessions[req.session_id].propuestas[i].estado = "pendiente_revision"

(* ------------------- applying the decisions (C21) ----------------------- *)
\* the lists of the feedback of the run in flight
Aprobadas == Get(Get(st, "human_feedback", Vacio), "aprobadas", {})
Rechazadas == Get(Get(st, "human_feedback", Vacio), "rechazadas", {})

\* this step is apply_decisions, resp. apply_decisions with a commit that
\* succeeded
PasoApplyDecisions == pc = "apply_decisions" /\ pc' # "apply_decisions"
PasoApplyDecisionsOk == pc = "apply_decisions" /\ pc' = "generate_summary"

\* the Conciliacion rows this step stored, as (transaction, entry) pairs
FilasNuevas == {<<r.fila.transaccion_id, r.fila.asiento_id>> : r \in dbConcil' \ dbConcil}

Digitos == {"0", "1", "2", "3", "4", "5", "6", "7", "8", "9"}

\* int(c) for a digit c
ValorDigito(c) == CHOOSE n \in 0..9 : ToString(n) = c

\* int(s) for a string of digits ('' counts 0)
RECURSIVE Entero(_)
Entero(s) == IF s = <<>> THEN 0 ELSE 10 * Entero(SubSeq(s, 1, Len(s) - 1)) + ValorDigito(s[Len(s)])

\* 10 ** k
RECURSIVE Pot10(_)
Pot10(k) == IF k = 0 THEN 1 ELSE 10 * Pot10(k - 1)

\* s.replace(old, new) for a non-empty old
RECURSIVE Replace(_, _, _)
Replace(s, old, new) ==
    IF Len(s) < Len(old) THEN s
    ELSE IF SubSeq(s, 1, Len(old)) = old
         THEN new \o Replace(SubSeq(s, Len(old) + 1, Len(s)), old, new)
         ELSE <<s[1]>> \o Replace(SubSeq(s, 2, Len(s)), old, new)

\* s.strip() where the only whitespace is ' '
RECURSIVE Strip(_)
Strip(s) ==
    IF s = <<>> THEN s
    ELSE IF s[1] = " " THEN Strip(SubSeq(s, 2, Len(s)))
    ELSE IF s[Len(s)] = " " THEN Strip(SubSeq(s, 1, Len(s) - 1))
    ELSE s

\* s.count(c) and s.rfind(c) (0-based, -1 when absent) for a character c
Count(s, c) == Cardinality({i \in 1..Len(s) : s[i] = c})
RFind(s, c) ==
    IF Count(s, c) = 0 THEN 0 - 1
    ELSE (CHOOSE i \in 1..Len(s) : s[i] = c /\ \A j \in (i + 1)..Len(s) : s[j] # c) - 1

\* a float is num / 10 ** esc; raising ValueError is [ok |-> FALSE]
NoFloat == [ok |-> FALSE, error |-> "ValueError"]

\* float(s) for a string without exponent, underscore, '+', "inf" or "nan":
\* an optional '-', then digits with at most one '.', one digit at least
Float(s) ==
    LET neg == s # <<>> /\ s[1] = "-"
        cuerpo == IF neg THEN SubSeq(s, 2, Len(s)) ELSE s
        punto == RFind(cuerpo, ".") + 1
        digitos == SelectSeq(cuerpo, LAMBDA c : c # ".")
    IN  IF \/ digitos = <<>>
           \/ Count(cuerpo, ".") > 1
           \/ \E i \in 1..Len(digitos) : digitos[i] \notin Digitos
        THEN NoFloat
        ELSE [ok |-> TRUE,
              num |-> (IF neg THEN 0 - 1 ELSE 1) * Entero(digitos),
              esc |-> IF punto = 0 THEN 0 ELSE Len(cuerpo) - punto]

\* the first statements of _parse_amount: strip, then drop spaces and
\* currency symbols
LimpiarImporte(amount_str) ==
    Replace(Replace(Replace(Replace(Replace(Strip(amount_str), <<" ">>, <<>>), <<"€">>, <<>>),
                            <<"$">>, <<>>), <<"U", "S", "D">>, <<>>), <<"E", "U", "R">>, <<>>)

\* mutant of ComaEsDecimal: the comma must lie within the last 2 characters
ComaEsDecimalCorta(amount_str) ==
    Count(amount_str, ",") = 1 /\ RFind(amount_str, ",") > Len(amount_str) - 3

\* num_commas == 1 and amount_str.rfind(',') > len(amount_str) - 4
ComaEsDecimal(amount_str) ==
    Count(amount_str, ",") = 1 /\ RFind(amount_str, ",") > Len(amount_str) - 4

\* TransactionValidator._parse_amount
ParseAmount(amount_str) ==
    LET limpio == LimpiarImporte(amount_str)
        num_commas == Count(limpio, ",")
        num_dots == Count(limpio, ".")
        normal ==
            IF num_commas > 0 /\ num_dots > 0
            THEN IF RFind(limpio, ",") > RFind(limpio, ".")
                 THEN Replace(Replace(limpio, <<".">>, <<>>), <<",">>, <<".">>)
                 ELSE Replace(limpio, <<",">>, <<>>)
            ELSE IF num_commas > 0
                 THEN IF ComaEsDecimal(limpio)
                      THEN Replace(limpio, <<",">>, <<".">>)
                      ELSE Replace(limpio, <<",">>, <<>>)
                 ELSE limpio
    IN  Float(normal)

\* s.split(sep) for a character sep
RECURSIVE Split(_, _)
Split(s, sep) ==
    IF Count(s, sep) = 0 THEN <<s>>
    ELSE LET i == CHOOSE j \in 1..Len(s) : s[j] = sep /\ \A k \in 1..(j - 1) : s[k] # sep
         IN  <<SubSeq(s, 1, i - 1)>> \o Split(SubSeq(s, i + 1, Len(s)), sep)

\* a string of digits only
SoloDigitos(s) == \A i \in 1..Len(s) : s[i] \in Digitos

\* the days of a month of the proleptic Gregorian calendar
DiasDelMes(year, month) ==
    IF month = 2
    THEN IF year % 4 = 0 /\ (year % 100 # 0 \/ year % 400 = 0) THEN 29 ELSE 28
    ELSE IF month \in {4, 6, 9, 11} THEN 30 ELSE 31

\* datetime(year, month, day) does not raise ValueError
FechaValida(year, month, day) ==
    /\ year >= 1
    /\ month \in 1..12
    /\ day >= 1
    /\ day <= DiasDelMes(year, month)

\* n as a string of at least w digits
RECURSIVE Pad(_, _)
Pad(n, w) == IF Len(Digits(n)) >= w THEN Digits(n) ELSE <<"0">> \o Pad(n, w - 1)

\* date.isoformat()
IsoFormat(year, month, day) == Pad(year, 4) \o <<"-">> \o Pad(month, 2) \o <<"-">> \o Pad(day, 2)

\* raising ValueError
NoFecha == [ok |-> FALSE, error |-> "ValueError"]

\* datetime.strptime(date_str, fmt) for a format of %Y, %m and %d joined by
\* sep, the year first or last: %Y takes four digits, %m and %d one or two
Strptime(date_str, sep, yfirst) ==
    LET partes == Split(date_str, sep)
        y == IF yfirst THEN partes[1] ELSE partes[3]
        d == IF yfirst THEN partes[3] ELSE partes[1]
        m == partes[2]
    IN  IF /\ Len(partes) = 3
           /\ SoloDigitos(y) /\ Len(y) = 4
           /\ SoloDigitos(m) /\ Len(m) \in 1..2 /\ Entero(m) \in 1..12
           /\ SoloDigitos(d) /\ Len(d) \in 1..2 /\ Entero(d) \in 1..31
           /\ FechaValida(Entero(y), Entero(m), Entero(d))
        THEN [ok |-> TRUE, fecha |-> IsoFormat(Entero(y), Entero(m), Entero(d))]
        ELSE NoFecha

\* the ten characters from position i are digits joined by sep in the shape of
\* a pattern of DATE_PATTERNS
EncajaEn(date_str, i, sep, yfirst) ==
    LET t == SubSeq(date_str, i, i + 9)
        a == IF yfirst THEN 5 ELSE 3
        b == IF yfirst THEN 8 ELSE 6
    IN  /\ i + 9 <= Len(date_str)
        /\ t[a] = sep /\ t[b] = sep
        /\ \A k \in (1..10) \ {a, b} : t[k] \in Digitos

\* re.search of a pattern of DATE_PATTERNS and datetime(...) of its groups
BuscarPatron(date_str, sep, yfirst) ==
    LET donde == {i \in 1..Len(date_str) : EncajaEn(date_str, i, sep, yfirst)}
        i == CHOOSE j \in donde : \A k \in donde : j <= k
        t == SubSeq(date_str, i, i + 9)
        year == Entero(IF yfirst THEN SubSeq(t, 1, 4) ELSE SubSeq(t, 7, 10))
        month == Entero(IF yfirst THEN SubSeq(t, 6, 7) ELSE SubSeq(t, 4, 5))
        day == Entero(IF yfirst THEN SubSeq(t, 9, 10) ELSE SubSeq(t, 1, 2))
    IN  IF donde # {} /\ FechaValida(year, month, day)
        THEN [ok |-> TRUE, fecha |-> IsoFormat(year, month, day)]
        ELSE NoFecha

\* the first attempt of a list that does not raise
RECURSIVE PrimerExito(_)
PrimerExito(intentos) ==
    IF intentos = <<>> THEN NoFecha
    ELSE IF intentos[1].ok THEN intentos[1]
    ELSE PrimerExito(SubSeq(intentos, 2, Len(intentos)))

\* TransactionValidator._parse_date
ParseDate(date_str) ==
    LET s == Strip(date_str)
    IN  PrimerExito(<< Strptime(s, "-", TRUE), Strptime(s, "/", FALSE), Strptime(s, "-", FALSE),
                       Strptime(s, ".", FALSE), Strptime(s, "/", TRUE),
                       BuscarPatron(s, "-", TRUE), BuscarPatron(s, "/", FALSE),
                       BuscarPatron(s, "-", FALSE), BuscarPatron(s, ".", FALSE) >>)

\* re.sub(r'\s+', ' ', s) where the only whitespace is ' '
RECURSIVE UnEspacio(_)
UnEspacio(s) ==
    IF Len(s) < 2 THEN s
    ELSE IF s[1] = " " /\ s[2] = " " THEN UnEspacio(SubSeq(s, 2, Len(s)))
    ELSE <<s[1]>> \o UnEspacio(SubSeq(s, 2, Len(s)))

\* TransactionValidator._clean_concept
CleanConcept(concept) == UnEspacio(Strip(concept))

\* TransactionValidator.validate: the normalised transaction, or the exception
\* (KeyError for a missing fecha or importe, ValueError from the parsers)
Validate(tx) ==
    IF "fecha" \notin DOMAIN tx THEN [ok |-> FALSE, error |-> "KeyError"]
    ELSE IF ~ParseDate(tx.fecha).ok THEN [ok |-> FALSE, error |-> "ValueError"]
    ELSE IF "importe" \notin DOMAIN tx THEN [ok |-> FALSE, error |-> "KeyError"]
    ELSE IF ~ParseAmount(tx.importe).ok THEN [ok |-> FALSE, error |-> "ValueError"]
    ELSE [ok |-> TRUE,
          tx |-> Upd([k \in {"referencia"} \cap DOMAIN tx |-> tx[k]],
                     [fecha |-> ParseDate(tx.fecha).fecha,
                      concepto |-> CleanConcept(Get(tx, "concepto", <<>>)),
                      importe |-> [num |-> ParseAmount(tx.importe).num, esc |-> ParseAmount(tx.importe).esc],
                      metadata |-> Get(tx, "metadata", Vacio)])]

(* ==================== SmartParserAgent stages ========================== *)
\* number of records of a batch handed to validate_and_clean
MaxRegistros == 3

\* length of the amount strings enumerated for _parse_amount
MaxImporteLen == 4

\* the attributes BaseAgent.__init__ sets on an agent
AtributosDelAgente == {"db", "hf", "agent_name"}

\* the outcome of a call that raised e
Excepcion(e) == [ok |-> FALSE, error |-> e]

\* an extracted record that validates, one with a bad date, one with a bad
\* amount, one without a date
RegistroBueno ==
    [fecha |-> <<"1", "5", "/", "1", "2", "/", "2", "0", "2", "4">>, concepto |-> <<" ", "A", " ", " ", "B">>,
     importe |-> <<"2", ".", "5", "0", "0", ",", "0", "0">>, referencia |-> <<"R">>]
RegistroFechaMala ==
    [fecha |-> <<"3", "1", "/", "0", "2", "/", "2", "0", "2", "4">>, concepto |-> <<"C">>,
     importe |-> <<"1", ",", "5">>]
RegistroImporteMalo ==
    [fecha |-> <<"2", "0", "2", "4", "-", "0", "2", "-", "2", "9">>, concepto |-> <<"D">>,
     importe |-> <<"1", ".", "2", ".", "3">>]
RegistroSinFecha == [concepto |-> <<"E">>, importe |-> <<"7">>]

Registros == {RegistroBueno, RegistroFechaMala, RegistroImporteMalo, RegistroSinFecha}

\* the states validate_and_clean is called with
ParserStates ==
    { [file_path |-> "a.csv", formato |-> "csv", transacciones |-> txs, status |-> "processing"] :
        txs \in UNION { [1..n -> Registros] : n \in 0..MaxRegistros } }

\* the rest of validate_and_clean, from the validator on
ValidarLote(state) ==
    LET transacciones == state.transacciones
        buenas == SelectSeq(transacciones, LAMBDA tx : Validate(tx).ok)
        validadas == [i \in 1..Len(buenas) |-> Validate(buenas[i]).tx]
        malas == SelectSeq([i \in 1..Len(transacciones) |-> i], LAMBDA i : ~Validate(transacciones[i]).ok)
        errores == [k \in 1..Len(malas) |->
                       [linea |-> malas[k], transaccion |-> transacciones[malas[k]],
                        error |-> Validate(transacciones[malas[k]]).error]]
    IN  Upd(state, [transacciones_validadas |-> validadas,
                    errores |-> errores,
                    status |-> IF errores = <<>> THEN "completed" ELSE "completed_with_errors",
                    metadata |-> Upd(Get(state, "metadata", Vacio),
                                     [validadas |-> Len(validadas), errores |-> Len(errores)])])

\* SmartParserAgent.validate_and_clean: its second statement reads self.logger
ValidateAndCleanOp(state) ==
    IF "logger" \notin AtributosDelAgente
    THEN Excepcion("AttributeError")
    ELSE [ok |-> TRUE, state |-> ValidarLote(state)]

\* what BaseAgent.run returns when the stage is the last of the graph
ResultadoDelRun(initial_state, salida) ==
    IF salida.ok THEN salida.state
    ELSE Upd(initial_state, [status |-> "error", error |-> salida.error])

\* the amount strings handed to _parse_amount
AlfabetoImporte == {"1", "2", ",", ".", "-", " "}
Importes ==
    UNION { [1..n -> AlfabetoImporte] : n \in 0..MaxImporteLen } \cup
    { <<"1", ".", "2", "3", "4", ",", "5", "6">>,
      <<"1", ",", "2", "3", "4", ".", "5", "6">>,
      <<"€", " ", "1", ".", "2", "3", "4", ",", "5", "6">>,
      <<"-", "1", "2", "3", ".", "4", "5">>,
      <<"1", "2", "3", "4", ",", "5", "6">>,
      <<"1", ",", "2", "3", "4", ",", "5", "6">>,
      <<"1", "2", ",", "5", "E", "U", "R">>,
      <<"U", "S", "D", "$", "1", ",", "2", "3", "4">>,
      <<"1", "x">> }

(* --------------------------- FileDetector ------------------------------- *)
\* FileDetector.supported_extensions
SupportedExtensions ==
    << <<<<".", "c", "s", "v">>, "csv">>, <<<<".", "t", "x", "t">>, "csv">>,
       <<<<".", "x", "l", "s">>, "excel">>, <<<<".", "x", "l", "s", "x">>, "excel">>,
       <<<<".", "x", "l", "s", "m">>, "excel">>, <<<<".", "o", "f", "x">>, "ofx">>,
       <<<<".", "p", "d", "f">>, "pdf">>, <<<<".", "j", "p", "g">>, "image">>,
       <<<<".", "j", "p", "e", "g">>, "image">>, <<<<".", "p", "n", "g">>, "image">>,
       <<<<".", "w", "e", "b", "p">>, "image">>, <<<<".", "g", "i", "f">>, "image">>,
       <<<<".", "h", "t", "m", "l">>, "html">>, <<<<".", "h", "t", "m">>, "html">> >>

\* supported_extensions.keys()
ExtensionesSoportadas == [i \in 1..Len(SupportedExtensions) |-> SupportedExtensions[i][1]]

\* Path(file_path).suffix: the last component from its last '.', unless that
\* '.' is its first or its last character
Suffix(file_path) ==
    LET name == SubSeq(file_path, RFind(file_path, "/") + 2, Len(file_path))
        i == RFind(name, ".") + 1
    IN  IF i > 1 /\ i < Len(name) THEN SubSeq(name, i, Len(name)) ELSE <<>>

\* mimetypes.guess_type(file_path)[0] or "application/octet-stream"
MimeType(file_path) ==
    LET ext == Lower(Suffix(file_path))
    IN  CASE ext = <<".", "c", "s", "v">> -> "text/csv"
          [] ext = <<".", "t", "x", "t">> -> "text/plain"
          [] ext = <<".", "p", "d", "f">> -> "application/pdf"
          [] OTHER -> "application/octet-stream"

\* the paths handed to detect, and the files that may exist
Paths ==
    { <<"a", ".", "c", "s", "v">>, <<"a", ".", "C", "S", "V">>, <<"d", "/", "b", ".", "o", "f", "x">>,
      <<"t", ".", "u">>, <<"c">>, <<".", "c", "s", "v">>, <<"e", ".", "p", "d", "f">>, <<"f", ".">> }

\* FileDetector.detect with the files of fs on disk
Detect(file_path, fs) ==
    LET extension == Lower(Suffix(file_path))
        hallados == SelectSeq(SupportedExtensions, LAMBDA e : e[1] = extension)
    IN  IF file_path \notin fs
        THEN [ok |-> FALSE, error |-> "FileNotFoundError", file_path |-> file_path]
        ELSE IF hallados = <<>>
        THEN [ok |-> FALSE, error |-> "ValueError", extension |-> extension,
              soportados |-> ExtensionesSoportadas]
        ELSE [ok |-> TRUE, formato |-> hallados[1][2], mime_type |-> MimeType(file_path)]

\* a call of FileDetector.detect
LlamarDetect ==
    /\ pc = "llamada"
    /\ req.op = "detect"
    /\ resp' = Detect(req.file_path, req.fs)
    /\ pc' = "retorno"
    /\ UNCHANGED <<reglasDB, historial, dbClasif, sessions, nextSid, req, inicial, st, dbSession,
                   ejecutadas, llmLlamadas, histConsultas, persistencias, adds, nReglaOps>>
    /\ UNCHANGED <<varsExtractos, varsConciliacion>>
    /\ UNCHANGED varsConcurrencia

(* ------------- interpret_structure and extract_transactions ------------- *)
\* the parameters of HFInferenceService._call_llm, and the keywords that
\* interpret_structure passes to it
ParametrosCallLlm == {"prompt", "max_tokens"}
ArgumentosCallLlm == {"prompt", "system_prompt", "max_tokens", "temperature"}

\* outcomes of the external call: it raises, it answers text that is not
\* JSON, or JSON: a list, a dict without "columnas", a dict whose "columnas"
\* is a number, a dict whose "columnas" is a list (a JSON value is given by
\* its class)
RespuestasLLM ==
    { [tipo |-> "excepcion"], [tipo |-> "texto"],
      [tipo |-> "json", valor |-> [clase |-> "list"]],
      [tipo |-> "json", valor |-> [clase |-> "dict", dict |-> [notas |-> "x"]]],
      [tipo |-> "json", valor |-> [clase |-> "dict", dict |-> [columnas |-> [clase |-> "int"]]]],
      [tipo |-> "json", valor |-> [clase |-> "dict", dict |-> [columnas |-> [clase |-> "list", len |-> 2], tiene_cabecera |-> TRUE]]] }

\* the except branch of interpret_structure
EstructuraFallback(state, e) ==
    Upd(state, [estructura |-> [error |-> e, fallback |-> "keywords"],
                metadata |-> Upd(Get(state, "metadata", Vacio),
                                 [llm_interpretation |-> FALSE, llm_error |-> e])])

\* the try block of interpret_structure with the answer of the external call
InterpretarRespuesta(state, respuesta) ==
    IF respuesta.tipo = "excepcion" THEN EstructuraFallback(state, "Exception")
    ELSE IF respuesta.tipo = "texto" THEN EstructuraFallback(state, "JSONDecodeError")
    ELSE IF respuesta.valor.clase # "dict" THEN EstructuraFallback(state, "AttributeError")
    ELSE IF "columnas" \in DOMAIN respuesta.valor.dict /\ respuesta.valor.dict.columnas.clase # "list"
    THEN EstructuraFallback(state, "TypeError")
    ELSE Upd(state, [estructura |-> respuesta.valor.dict,
                     metadata |-> Upd(Get(state, "metadata", Vacio), [llm_interpretation |-> TRUE])])

\* SmartParserAgent.interpret_structure: the new state and the number of
\* external calls made, or the exception
InterpretStructureOp(state, respuesta) ==
    IF "logger" \notin AtributosDelAgente
    THEN Excepcion("AttributeError")
    ELSE IF state.formato = "ofx"
    THEN [ok |-> TRUE, llamadas |-> 0,
          state |-> Upd(state, [estructura |-> [formato |-> "ofx", standard |-> TRUE]])]
    ELSE IF "hf_service" \notin AtributosDelAgente
    THEN [ok |-> TRUE, llamadas |-> 0, state |-> EstructuraFallback(state, "AttributeError")]
    ELSE IF ~(ArgumentosCallLlm \subseteq ParametrosCallLlm)
    THEN [ok |-> TRUE, llamadas |-> 0, state |-> EstructuraFallback(state, "TypeError")]
    ELSE [ok |-> TRUE, llamadas |-> 1, state |-> InterpretarRespuesta(state, respuesta)]

\* the extractors of extract_transactions that work from keywords
ExtractoresKeywords == {"CSVExtractor", "ExcelExtractor", "OFXExtractor"}

\* SmartParserAgent.extract_transactions: the extractor it uses, or the
\* exception
ExtractTransactionsOp(state) ==
    LET formato == state.formato
        estructura == Get(state, "estructura", Vacio)
    IN  IF "logger" \notin AtributosDelAgente
        THEN Excepcion("AttributeError")
        ELSE IF formato \in {"pdf", "image"}
        THEN [ok |-> TRUE, extractor |-> "LLM_" \o formato]
        ELSE IF Get(estructura, "llm_interpretation", FALSE) \/ "columnas" \in DOMAIN estructura
        THEN [ok |-> TRUE, extractor |-> CASE formato = "csv" -> "CSVExtractorLLM"
                                           [] formato = "excel" -> "ExcelExtractorLLM"
                                           [] OTHER -> "OFXExtractor"]
        ELSE IF formato = "csv" THEN [ok |-> TRUE, extractor |-> "CSVExtractor"]
        ELSE IF formato = "excel" THEN [ok |-> TRUE, extractor |-> "ExcelExtractor"]
        ELSE IF formato = "ofx" THEN [ok |-> TRUE, extractor |-> "OFXExtractor"]
        ELSE Excepcion("ValueError")

\* the states interpret_structure is called with
EstadosConFormato ==
    { [file_path |-> "a", formato |-> f, raw_content |-> "x", status |-> "processing"] :
        f \in {"csv", "excel", "ofx", "pdf", "html"} }

\* the structure maps extract_transactions may find in its state
Estructuras ==
    { [formato |-> "ofx", standard |-> TRUE], [error |-> "TypeError", fallback |-> "keywords"],
      [notas |-> "x"], [columnas |-> [clase |-> "list", len |-> 2], tiene_cabecera |-> TRUE] }

\* a call of interpret_structure
InterpretStructure ==
    /\ pc = "llamada"
    /\ req.op = "interpret_structure"
    /\ ejecutadas' = ejecutadas \cup {"interpret_structure"}
    /\ resp' = InterpretStructureOp(req.state, req.respuesta)
    /\ pc' = "retorno"
    /\ UNCHANGED <<reglasDB, historial, dbClasif, sessions, nextSid, req, inicial, st, dbSession,
                   llmLlamadas, histConsultas, persistencias, adds, nReglaOps>>
    /\ UNCHANGED <<varsExtractos, varsConciliacion>>
    /\ UNCHANGED varsConcurrencia

\* a call of extract_transactions
ExtractTransactions ==
    /\ pc = "llamada"
    /\ req.op = "extract_transactions"
    /\ ejecutadas' = ejecutadas \cup {"extract_transactions"}
    /\ resp' = ExtractTransactionsOp(req.state)
    /\ pc' = "retorno"
    /\ UNCHANGED <<reglasDB, historial, dbClasif, sessions, nextSid, req, inicial, st, dbSession,
                   llmLlamadas, histConsultas, persistencias, adds, nReglaOps>>
    /\ UNCHANGED <<varsExtractos, varsConciliacion>>
    /\ UNCHANGED varsConcurrencia

\* the calls the specification makes
Llamadas ==
    { [op |-> "_parse_amount", amount_str |-> a] : a \in Importes } \cup
    { [op |-> "validate_and_clean", state |-> e] : e \in ParserStates } \cup
    { [op |-> "detect", file_path |-> f, fs |-> fs] : f \in Paths, fs \in SUBSET Paths } \cup
    { [op |-> "interpret_structure", state |-> e, respuesta |-> r] :
        e \in EstadosConFormato, r \in RespuestasLLM } \cup
    { [op |-> "extract_transactions", state |-> Upd(e, [estructura |-> m])] :
        e \in EstadosConFormato, m \in Estructuras }

\* a call of TransactionValidator._parse_amount
LlamarParseAmount ==
    /\ pc = "llamada"
    /\ req.op = "_parse_amount"
    /\ resp' = ParseAmount(req.amount_str)
    /\ pc' = "retorno"
    /\ UNCHANGED <<reglasDB, historial, dbClasif, sessions, nextSid, req, inicial, st, dbSession,
                   ejecutadas, llmLlamadas, histConsultas, persistencias, adds, nReglaOps>>
    /\ UNCHANGED <<varsExtractos, varsConciliacion>>
    /\ UNCHANGED varsConcurrencia

\* a run whose graph has reached validate_clean
ValidateAndClean ==
    /\ pc = "llamada"
    /\ req.op = "validate_and_clean"
    /\ ejecutadas' = ejecutadas \cup {"validate_clean"}
    /\ resp' = ResultadoDelRun(req.state, ValidateAndCleanOp(req.state))
    /\ pc' = "retorno"
    /\ UNCHANGED <<reglasDB, historial, dbClasif, sessions, nextSid, req, inicial, st, dbSession,
                   llmLlamadas, histConsultas, persistencias, adds, nReglaOps>>
    /\ UNCHANGED <<varsExtractos, varsConciliacion>>
    /\ UNCHANGED varsConcurrencia

\* a call is about to be made
InitParser ==
    /\ SinExtractos
    /\ UnaSolaPeticion
    /\ SinConciliacion
    /\ SinClasificacion
    /\ nextSid = 0
    /\ inicial = Vacio
    /\ st = Vacio
    /\ ejecutadas = {}
    /\ pc = "llamada"
    /\ req \in Llamadas

NextParser ==
    \/ LlamarDetect
    \/ InterpretStructure
    \/ ExtractTransactions
    \/ LlamarParseAmount
    \/ ValidateAndClean

SpecParser == InitParser /\ [][NextParser]_vars

(* ------------------------ validation (C22) ------------------------------ *)
\* validate_and_clean has been applied to a batch
TrasValidateAndClean == pc = "retorno" /\ req.op = "validate_and_clean"

\* C22: after validate_and_clean every extracted record is in exactly one of
\* the valid list and the error list (the sizes sum to the number of records),
\* a record whose date or amount does not parse is in the error list under
\* its line number and the records after it are still processed, and the
\* status is "completed" if the error list is empty and
\* "completed_with_errors" otherwise, never "error".
C22_ValidationPartitions ==
    TrasValidateAndClean =>
        LET txs == req.state.transacciones
        IN  /\ resp.status \in {"completed", "completed_with_errors"}
            /\ Len(resp.transacciones_validadas) + Len(resp.errores) = Len(txs)
            /\ \A i \in 1..Len(txs) :
                  (~ParseDate(Get(txs[i], "fecha", <<>>)).ok \/ ~ParseAmount(Get(txs[i], "importe", <<>>)).ok)
                      <=> \E k \in 1..Len(resp.errores) : resp.errores[k].linea = i
            /\ resp.status = "completed" <=> resp.errores = <<>>

(* ------------------------ amount parsing (C25) -------------------------- *)
\* _parse_amount has been applied to a string
TrasParseAmount == pc = "retorno" /\ req.op = "_parse_amount"

\* the string without spaces and currency symbols (the letters of the strings
\* enumerated here are those of the currency codes, and 'x')
SinMoneda(s) == SelectSeq(s, LAMBDA c : c \notin {" ", "€", "$", "U", "S", "D", "E", "R"})

\* the number a string denotes when dec is its decimal separator: an optional
\* '-', the digits of the whole part, and after the separator those of the
\* fraction
NumeroCon(t, dec) ==
    LET neg == t # <<>> /\ t[1] = "-"
        partes == Split(IF neg THEN SubSeq(t, 2, Len(t)) ELSE t, dec)
        entera == partes[1]
        fraccion == IF Len(partes) = 2 THEN partes[2] ELSE <<>>
    IN  IF Len(partes) <= 2 /\ SoloDigitos(entera) /\ SoloDigitos(fraccion) /\ entera \o fraccion # <<>>
        THEN [ok |-> TRUE,
              num |-> (IF neg THEN 0 - 1 ELSE 1) * (Entero(entera) * Pot10(Len(fraccion)) + Entero(fraccion)),
              esc |-> Len(fraccion)]
        ELSE [ok |-> FALSE]

\* two outcomes of a parse are the same failure or the same number
MismoNumero(a, b) ==
    /\ a.ok = b.ok
    /\ a.ok => a.num * Pot10(b.esc) = b.num * Pot10(a.esc)

\* the position of the last c in s, 0 when there is none
Ultimo(s, c) == IF Count(s, c) = 0 THEN 0 ELSE CHOOSE i \in 1..Len(s) : s[i] = c /\ \A j \in (i + 1)..Len(s) : s[j] # c

\* C25: with c the input without spaces and currency symbols: if c holds a
\* comma and a dot, the one occurring later is the decimal separator and the
\* other is dropped; if c holds one comma, no dot, and the comma is one of the
\* last 3 characters, the comma is the decimal separator; if c holds commas
\* and no dot otherwise, the commas are dropped; and "1.234,56", "1,234.56"
\* and "€ 1.234,56" parse to 1234.56 and "-123.45" to -123.45.
C25_AmountSeparators ==
    TrasParseAmount =>
        LET c == SinMoneda(req.amount_str)
            sin(x) == SelectSeq(c, LAMBDA ch : ch # x)
        IN  /\ (Count(c, ",") > 0 /\ Count(c, ".") > 0 /\ Ultimo(c, ",") > Ultimo(c, "."))
                  => MismoNumero(resp, NumeroCon(sin("."), ","))
            /\ (Count(c, ",") > 0 /\ Count(c, ".") > 0 /\ Ultimo(c, ".") > Ultimo(c, ","))
                  => MismoNumero(resp, NumeroCon(sin(","), "."))
            /\ (Count(c, ",") = 1 /\ Count(c, ".") = 0 /\ Ultimo(c, ",") >= Len(c) - 2)
                  => MismoNumero(resp, NumeroCon(c, ","))
            /\ (Count(c, ",") > 0 /\ Count(c, ".") = 0
                  /\ ~(Count(c, ",") = 1 /\ Ultimo(c, ",") >= Len(c) - 2))
                  => MismoNumero(resp, NumeroCon(sin(","), "."))
            /\ req.amount_str \in { <<"1", ".", "2", "3", "4", ",", "5", "6">>,
                                    <<"1", ",", "2", "3", "4", ".", "5", "6">>,
                                    <<"€", " ", "1", ".", "2", "3", "4", ",", "5", "6">> }
                  => MismoNumero(resp, [ok |-> TRUE, num |-> 123456, esc |-> 2])
            /\ req.amount_str = <<"-", "1", "2", "3", ".", "4", "5">>
                  => MismoNumero(resp, [ok |-> TRUE, num |-> 0 - 12345, esc |-> 2])

\* C25 witness: "€ 1.234,56" has been parsed to 1234.56.
C25_Witness ==
    /\ TrasParseAmount
    /\ req.amount_str = <<"€", " ", "1", ".", "2", "3", "4", ",", "5", "6">>
    /\ resp.ok
    /\ resp.num = 123456
    /\ resp.esc = 2

(* ------------------------ format detection (C23) ------------------------ *)
\* detect has been applied to a path
TrasDetect == pc = "retorno" /\ req.op = "detect"

\* C23: detect decides on the extension first: a path whose extension is not
\* supported fails with the unsupported-format error that names the extension
\* and the supported extensions, whether or not the file exists; a path with
\* a supported extension and no file fails with the not-found error; the
\* files on disk are left as they were.
C23_ExtensionFirst ==
    TrasDetect =>
        LET extension == Lower(Suffix(req.file_path))
            soportada == \E i \in 1..Len(ExtensionesSoportadas) : ExtensionesSoportadas[i] = extension
        IN  /\ ~soportada => /\ ~resp.ok
                             /\ resp.error = "ValueError"
                             /\ resp.extension = extension
                             /\ resp.soportados = ExtensionesSoportadas
            /\ (soportada /\ req.file_path \notin req.fs) => ~resp.ok /\ resp.error = "FileNotFoundError"

(* -------------------- structure interpretation (C24) -------------------- *)
\* interpret_structure has been applied to a state
TrasInterpretStructure == pc = "retorno" /\ req.op = "interpret_structure"

\* the answer of the external call cannot be used as a structure map
RespuestaInservible(respuesta) ==
    \/ respuesta.tipo \in {"excepcion", "texto"}
    \/ respuesta.valor.clase # "dict"
    \/ "columnas" \notin DOMAIN respuesta.valor.dict
    \/ respuesta.valor.dict.columnas.clase # "list"

\* C24: interpret_structure never raises: whatever the external call does it
\* returns a state with a structure map; when the answer cannot be used,
\* extract_transactions applied to that state uses a keyword extractor; for
\* the format "ofx" the external call is not made and the map is marked
\* standard.
C24_InterpretNeverRaises ==
    TrasInterpretStructure =>
        /\ resp.ok
        /\ "estructura" \in DOMAIN resp.state
        /\ req.state.formato = "ofx" => resp.llamadas = 0 /\ resp.state.estructura.standard
        /\ (req.state.formato \in {"csv", "excel"} /\ RespuestaInservible(req.respuesta))
              => /\ ExtractTransactionsOp(resp.state).ok
                 /\ ExtractTransactionsOp(resp.state).extractor \in ExtractoresKeywords

(* ------------------------ history phase (C26) --------------------------- *)
\* this step is check_history
PasoCheckHistory == pc = "check_history" /\ pc' = "llm_classify"

\* the records check_history finds unresolved
SinResolver ==
    SelectSeq(Get(st, "transacciones", <<>>),
              LAMBDA t : t.id \notin {c.transaccion_id : c \in Range(Get(st, "clasificaciones", <<>>))})

\* the decisions check_history has added for the record with this id
DecisionesNuevas(id) ==
    {i \in (Len(Get(st, "clasificaciones", <<>>)) + 1)..Len(st'.clasificaciones) :
        st'.clasificaciones[i].transaccion_id = id}

\* the record with this id is handed on to llm_classify
SiguePendiente(id) == \E i \in 1..Len(st'.transacciones) : st'.transacciones[i].id = id

\* C26 as stated: check_history gives an unresolved record with at least one
\* human-validated match the most frequent category of the matches, the
\* method tag of the history phase and the confidence 0.85 * (matches with
\* that category / matches found); a record without a match stays unresolved
\* and is handed to the external phase.
C26_HistoryConfidenceExact ==
    [][PasoCheckHistory =>
        \A k \in 1..Len(SinResolver) :
            LET tx == SinResolver[k]
                M == Coincidencias(tx)
            IN  IF M = {}
                THEN SiguePendiente(tx.id) /\ DecisionesNuevas(tx.id) = {}
                ELSE /\ ~SiguePendiente(tx.id)
                     /\ Cardinality(DecisionesNuevas(tx.id)) = 1
                     /\ \A i \in DecisionesNuevas(tx.id) :
                           LET d == st'.clasificaciones[i]
                           IN  /\ d.metodo = "historico"
                               /\ d.categoria_pgc \in CategoriasComunes(M)
                               /\ d.confianza * Cardinality(M) = ConfianzaHistorico * Cuenta(M, d.categoria_pgc)]_vars

\* C26 amended: as stated, with the confidence rounded to two decimals:
\* round(0.85 * (matches with that category / matches found), 2); the matches
\* found are the rows the query returns.
C26_HistoryConfidenceRounded ==
    [][PasoCheckHistory =>
        \A k \in 1..Len(SinResolver) :
            LET tx == SinResolver[k]
                M == Coincidencias(tx)
            IN  IF M = {}
                THEN SiguePendiente(tx.id) /\ DecisionesNuevas(tx.id) = {}
                ELSE /\ ~SiguePendiente(tx.id)
                     /\ Cardinality(DecisionesNuevas(tx.id)) = 1
                     /\ \A i \in DecisionesNuevas(tx.id) :
                           LET d == st'.clasificaciones[i]
                               n == ConfianzaHistorico * Cuenta(M, d.categoria_pgc)
                           IN  /\ d.metodo = "historico"
                               /\ d.categoria_pgc \in CategoriasComunes(M)
                               /\ 2 * (d.confianza * Cardinality(M) - n) <= Cardinality(M)
                               /\ 2 * (n - d.confianza * Cardinality(M)) <= Cardinality(M)]_vars

\* C26 witness: check_history has decided a record from three matches, two of
\* them with the category it chose: confidence round(0.85 * 2 / 3, 2) = 0.57.
C26_Witness ==
    /\ pc = "llm_classify"
    /\ \E i \in 1..Len(st.clasificaciones) :
          /\ st.clasificaciones[i].metodo = "historico"
          /\ st.clasificaciones[i].categoria_pgc = "640"
          /\ st.clasificaciones[i].confianza = 57

(* ------------------- concurrent requests on one event loop -------------- *)
\* the locals of the handler that runs
Corrutina ==
    [pc |-> pc, req |-> req, inicial |-> inicial, st |-> st, dbSession |-> dbSession,
     ejecutadas |-> ejecutadas, llmLlamadas |-> llmLlamadas, histConsultas |-> histConsultas,
     adds |-> adds]

\* The handler that runs reaches an await (a query, a commit, a node of the
\* graph) or has returned, and the event loop runs the other handler; the
\* module-level stores and the database are shared, the locals are not.
Ceder ==
    /\ pc # "idle" \/ suspendida.pc # "idle"
    /\ suspendida' = Corrutina
    /\ pc' = suspendida.pc
    /\ req' = suspendida.req
    /\ inicial' = suspendida.inicial
    /\ st' = suspendida.st
    /\ dbSession' = suspendida.dbSession
    /\ ejecutadas' = suspendida.ejecutadas
    /\ llmLlamadas' = suspendida.llmLlamadas
    /\ histConsultas' = suspendida.histConsultas
    /\ adds' = suspendida.adds
    /\ UNCHANGED <<reglasDB, historial, dbClasif, sessions, nextSid, resp, persistencias, nReglaOps>>
    /\ UNCHANGED <<varsExtractos, varsConciliacion>>

\* the result of a /batch run of tenant "ta" that has paused on t1
BatchPausado ==
    PrepareReviewOp([tenant_id |-> "ta", session_id |-> 1, transaccion_ids |-> {"t1"},
                     review_threshold |-> BatchReviewThreshold, transacciones |-> <<>>,
                     reglas |-> <<>>, status |-> "processing",
                     clasificaciones |-> << [transaccion_id |-> "t1", categoria_pgc |-> "700",
                                             confianza |-> 74, metodo |-> "llm",
                                             explicacion |-> ""] >>])

\* the results of /iniciar runs of tenant "ta" that have paused on a match of t1
ConcPausados ==
    { ConcPrepareReviewOp(TrasMatching(ConcInitialState([empresa_id |-> "e1", periodo_inicio |-> 1,
                                                         periodo_fin |-> 31], "ta", 1), ms)) :
        ms \in { m \in ListasDeMatches : \E i \in 1..Len(m) : m[i].confianza < RequestAutoApprove } }

\* A first run has paused and its endpoint is about to store the session:
\* a classification run, or a reconciliation run whose matching tiers found
\* matches. Every later request is a /validar on that session.
InitConcurrente ==
    /\ SinExtractos
    /\ UnaSolaPeticion
    /\ SinClasificacion
    /\ SinConciliacion
    /\ nextSid = MaxSessions
    /\ ejecutadas = {}
    /\ \/ /\ pc = "fin"
          /\ req = [tipo |-> "batch", session_id |-> 1]
          /\ st = BatchPausado
          /\ inicial = [tenant_id |-> "ta", session_id |-> 1, transaccion_ids |-> {"t1"},
                        review_threshold |-> BatchReviewThreshold]
       \/ /\ pc = "conc_fin"
          /\ req = [tipo |-> "iniciar", session_id |-> 1]
          /\ st \in ConcPausados
          /\ inicial = ConcInitialState([empresa_id |-> "e1", periodo_inicio |-> 1,
                                         periodo_fin |-> 31], "ta", 1)

NextConcurrente ==
    \/ BatchReturn
    \/ ValidarNoEncontrada
    \/ ValidarAccesoDenegado
    \/ ValidarClasificaciones
    \/ LoadData
    \/ ApplyRules
    \/ CheckHistory
    \/ LlmClassify
    \/ PrepareReview
    \/ SaveResults
    \/ ValidarReturn
    \/ IniciarReturn
    \/ ValidarPropuestasNoEncontrada
    \/ ValidarPropuestasAccesoDenegado
    \/ ValidarPropuestas
    \/ ConcLoadData
    \/ ExactMatch
    \/ FuzzyMatch
    \/ ConcPrepareReview
    \/ ApplyDecisions
    \/ GenerateSummary
    \/ ValidarPropuestasReturn
    \/ Ceder

SpecConcurrente == InitConcurrente /\ [][NextConcurrente]_vars

(* ------------------- concurrent resume (C27) ---------------------------- *)
\* the last response reports the KeyError of "del _sessions[session_id]"
FallaAlBorrar == Get(resp, "error", "") = "KeyError"

Rechaza == resp' # resp /\ Get(resp', "code", 200) \in {403, 404}

\* the step is the synchronous part of a /validar that attaches the feedback
\* of the caller and starts the resumed run
Reanuda == pc = "idle" /\ Get(req', "tipo", "") = "validar" /\ UNCHANGED suspendida

\* the store of the endpoint the resumed request was sent to
StoreDe(p) == IF p = "load_data" THEN sessions ELSE concSessions

\* C28: a /validar that is answered with not-found or access-denied changes
\* no stored session (human_feedback included), starts no run and persists
\* nothing; and a /validar attaches feedback and starts a run only for a
\* session id that is in the store, on behalf of a caller of the tenant the
\* session belongs to, and changes no other session.
C28_UnentitledResume ==
    [][ /\ Rechaza =>
            /\ UNCHANGED <<sessions, concSessions, dbClasif, dbConcil, persistencias>>
            /\ UNCHANGED <<pc, req, inicial, st, dbSession, ejecutadas, adds, suspendida>>
            /\ Get(resp', "code", 200) = 404 =>
                  resp'.session_id \notin DOMAIN sessions \/ resp'.session_id \notin DOMAIN concSessions
        /\ Reanuda =>
            /\ req'.session_id \in DOMAIN StoreDe(pc')
            /\ st'.human_feedback.validado_por = StoreDe(pc')[req'.session_id].tenant_id
            /\ \A s \in DOMAIN sessions \cup DOMAIN concSessions :
                  s # req'.session_id =>
                      /\ s \in DOMAIN sessions => sessions'[s] = sessions[s]
                      /\ s \in DOMAIN concSessions => concSessions'[s] = concSessions[s]
      ]_vars

\* C28 witness: a caller of another tenant has been answered access-denied
\* while the paused session is stored without any feedback
C28_Witness ==
    /\ Get(resp, "code", 200) = 403
    /\ 1 \in DOMAIN sessions
    /\ "human_feedback" \notin DOMAIN sessions[1]
    /\ pc = "idle"
    /\ dbClasif = {}

(* ------------------- the session stores (C29) --------------------------- *)
\* the step is the return of the endpoint of kind tipo after agent.run
Retorna(tipo) ==
    /\ pc \in {"fin", "conc_fin"}
    /\ Get(req, "tipo", "") = tipo
    /\ pc' = "idle"
    /\ UNCHANGED suspendida

\* how one store may change in a step: an entry appears only at the return of
\* a started run with status "review" and is the result of that run; an
\* entry disappears only at the return of a resumed run with status
\* "completed"; the return of a resumed run removes the entry when the status
\* is "completed" and leaves the store as it is otherwise, the entry carrying
\* the feedback of the request
PasoDeStore(store, storeNuevo, inicio, fin) ==
    /\ \A s \in DOMAIN storeNuevo \ DOMAIN store :
          /\ Retorna(inicio) /\ pc = fin
          /\ req.session_id = s
          /\ Get(st, "status", "") = "review"
          /\ storeNuevo[s] = st
    /\ \A s \in DOMAIN store \ DOMAIN storeNuevo :
          /\ Retorna("validar") /\ pc = fin
          /\ req.session_id = s
          /\ Get(st, "status", "") = "completed"
    /\ (Retorna(inicio) /\ pc = fin /\ Get(st, "status", "") # "review") => storeNuevo = store
    /\ (Retorna("validar") /\ pc = fin) =>
          IF Get(st, "status", "") = "completed"
          THEN req.session_id \notin DOMAIN storeNuevo
          ELSE /\ storeNuevo = store
               /\ req.session_id \in DOMAIN store
               /\ "human_feedback" \in DOMAIN store[req.session_id]

\* a request that arrives for a session id is answered not-found exactly when
\* the id is in no store
SinSesionNoEncontrada ==
    (pc = "idle" /\ resp' # resp /\ UNCHANGED suspendida) =>
        (resp'.code = 404 <=> resp'.session_id \notin DOMAIN sessions \cup DOMAIN concSessions)

\* C29: a store gets an entry only when a started run returns "review", loses
\* it when (and only when) a resumed run returns "completed", keeps it with
\* the feedback attached when a resumed run returns "error"; a session whose
\* decisions have been committed is in the store no longer once its request
\* has returned, and every request on an id that is not in the store is
\* answered not-found.
C29_SessionStore ==
    /\ [](\A s \in 1..MaxSessions : (persistencias[s] >= 1 /\ pc = "idle") => s \notin DOMAIN sessions)
    /\ [][ /\ PasoDeStore(sessions, sessions', "batch", "fin")
           /\ PasoDeStore(concSessions, concSessions', "iniciar", "conc_fin")
           /\ SinSesionNoEncontrada ]_vars

\* C29 witness: the session was resumed with a correction, its decisions are
\* stored, the entry is gone and a further /validar was answered not-found
C29_Witness ==
    /\ Get(resp, "code", 200) = 404
    /\ pc = "idle"
    /\ 1 \notin DOMAIN sessions
    /\ \E r \in dbClasif : r.sid = 1 /\ r.fila.metodo = "manual"

(* ------------------- the runs of the two agents (C30) ------------------- *)
\* a step of the run in flight: a node of the graph, or the code of the
\* endpoint after agent.run has returned
Avanza ==
    \/ LoadData
    \/ ApplyRules
    \/ CheckHistory
    \/ LlmClassify
    \/ PrepareReview
    \/ SaveResults
    \/ BatchReturn
    \/ ValidarReturn
    \/ ConcLoadData
    \/ ExactMatch
    \/ FuzzyMatch
    \/ ConcPrepareReview
    \/ ApplyDecisions
    \/ GenerateSummary
    \/ IniciarReturn
    \/ ValidarPropuestasReturn

\* no request is in flight and no rule is edited, or a reconciliation run is
\* at the review gate with the matches its tiers found
InitEjecuciones ==
    \/ /\ Init
       /\ reglasDB = ReglasFijas
       /\ historial = <<>>
       /\ dbClasif = {}
    \/ InitConciliacion

NextEjecuciones ==
    \/ ClasificarBatch
    \/ ValidarClasificaciones
    \/ IniciarConciliacion
    \/ ValidarPropuestas
    \/ Avanza

\* every awaited call of a run returns (with a value or with an exception),
\* so the run in flight goes on
SpecEjecuciones == InitEjecuciones /\ [][NextEjecuciones]_vars /\ WF_vars(Avanza)

\* agent.run has returned to the endpoint that called it
Devuelto == pc \in {"fin", "conc_fin"}

\* the run was started by a /validar, with human_feedback in its initial state
ConFeedbackInicial == "human_feedback" \in DOMAIN inicial

\* C30: every started run returns to its endpoint; the status it returns is
\* "review", "completed" or "error", never "processing" or "completing"; and
\* a run started with human_feedback returns "completed" or "error", never
\* "review".
C30_RunsTerminate ==
    /\ (pc # "idle") ~> Devuelto
    /\ [](Devuelto => Get(st, "status", "") \in {"review", "completed", "error"})
    /\ []((Devuelto /\ ConFeedbackInicial) => Get(st, "status", "") \in {"completed", "error"})

\* C30 witness: a resumed classification run has returned "completed" with a
\* decision below the threshold that the feedback did not correct
C30_Witness ==
    /\ pc = "fin"
    /\ ConFeedbackInicial
    /\ Get(st, "status", "") = "completed"
    /\ \E c \in Range(Get(st, "clasificaciones", <<>>)) :
          /\ Valor(c.confianza) < st.review_threshold
          /\ c.metodo # "manual"
====
